---- MODULE Spec2Model ----
(***************************************************************************)
(* CostGuardian: the idle-resource lifecycle of lambda_handler.py.         *)
(* One monitoring cycle (lambda_handler) walks the resources of the        *)
(* account; every loop iteration reads the resource's history from the     *)
(* DynamoDB table, classifies the resource as idle or active, decides an   *)
(* action and appends one record.  Time is in seconds (datetime.now()).    *)
(***************************************************************************)
EXTENDS Integers, Sequences, FiniteSets, TLC

VARIABLES
    now,        \* datetime.now().timestamp() of the running cycle
    cycles,     \* number of invocations of lambda_handler so far
    config,     \* the module-level configuration (lambda_handler.py 31-35)
    scope,      \* the resources the describe_* calls of a cycle return
    pending,    \* resources of the running cycle not yet visited by their loop
    table,      \* the DynamoDB table: resource id -> records, oldest first
    state,      \* the cloud-side state of each resource
    backups,    \* the backup artifacts that exist for each resource
    errors,     \* the 'errors' counter of the running cycle, per resource
    last,       \* the loop iteration that ran last: decision and calls made
    probe,      \* a direct call of determine_action: arguments and result
    response,   \* how the last invocation of lambda_handler ended
    processed,  \* resources whose loop iteration ran in the running cycle
    calc,       \* the savings calculator: its region, last result and S3 objects
    tags        \* the CostGuardian tag of each resource

vars == << now, cycles, config, scope, pending, table, state, backups, errors, last, probe,
           response, processed, calc, tags >>

----------------------------------------------------------------------------
(* Bounds *)

MaxCycles == 4      \* invocations of lambda_handler
MaxRdsCycles == 6   \* invocations of lambda_handler, database scenarios
MaxProbeLen == 3    \* longest history handed to determine_action directly
MaxRuns == 3        \* invocations of lambda_handler, whole-run scenarios
MaxCalcRuns == 2    \* invocations of the savings calculator
MaxSavingsSteps == 3    \* points in time of the savings scenarios

(* Program constants *)

SecondsPerDay == 86400
CPU_IDLE_THRESHOLD == 5
HistoryDays == 30
NatIdleChecks == 3          \* `elif idle_count < 3` of the NAT gateway loop
RdsIdleChecks == 3          \* `elif idle_count < 3` of the RDS loop
RdsGraceDays == 7           \* `if days_stopped >= 7`
EipIdleChecks == 3          \* `if unattached_count < 3`
S3EmptyChecks == 3          \* `if empty_count < 3`
EbsIdleChecks == 3          \* `if available_count < 3`
LB_IDLE_CHECKS == 1
VPC_IDLE_CHECKS == 1
(* The idle-check constants of the configuration block that no loop reads *)
NAT_GATEWAY_IDLE_CHECKS == 1
RDS_IDLE_CHECKS == 1
S3_EMPTY_BUCKET_CHECKS == 1
EBS_UNATTACHED_CHECKS == 1

Day == SecondsPerDay
HalfDay == SecondsPerDay \div 2
StartTime == 40 * Day
Deltas == { HalfDay, Day }
RdsDeltas == { 6 * Day, 7 * Day }

None == -1

Instances == { "i-001" }
NatGateways == { "nat-001" }
LoadBalancers == { "lb-001" }
DbInstances == { "db-001" }
ElasticIps == { "eipalloc-001" }
Buckets == { "bucket-001" }
Volumes == { "vol-001" }
Vpcs == { "vpc-001" }
Resources == Instances \cup NatGateways \cup LoadBalancers \cup DbInstances
                \cup ElasticIps \cup Buckets \cup Volumes \cup Vpcs

CpuReadings == { 4, 5 }
MetricError == -2       \* the CloudWatch query raises
NoDatapoints == -3      \* the CloudWatch query returns no datapoints

Statuses == { "ACTIVE", "IDLE", "IDLE_WARNING", "QUARANTINE", "DELETED" }

(* The values the configuration constants are given: the deployed ones     *)
(* (1, TRUE, 0) and the ones the comments next to them name.               *)
Configs ==
    [ IDLE_CHECKS_BEFORE_ACTION : { 1, 3 },
      SKIP_QUARANTINE : BOOLEAN,
      GRACE_PERIOD_DAYS : { 0, 1 } ]

----------------------------------------------------------------------------
(* Python truthiness of a timestamp: None and 0 are false *)
Truthy(x) == x # None /\ x # 0

(* table.put_item: (ResourceId, Timestamp) is the key, so an item with the *)
(* key of an existing item replaces it; items stay ordered by Timestamp.   *)
put_item(items, item) ==
    LET older == SelectSeq(items, LAMBDA e : e.Timestamp < item.Timestamp)
        newer == SelectSeq(items, LAMBDA e : e.Timestamp > item.Timestamp)
    IN  older \o << item >> \o newer

(* get_resource_history: the items of the last `days` days, oldest first;  *)
(* [] when the query raises.                                               *)
get_resource_history(items, queryOk, current_time, days) ==
    IF queryOk
    THEN SelectSeq(items, LAMBDA e : e.Timestamp >= current_time - days * SecondsPerDay)
    ELSE << >>

(* The loop of determine_action over reversed(history), from entry i down. *)
RECURSIVE ScanHistory(_, _, _)
ScanHistory(history, i, idle_count) ==
    IF i = 0
    THEN [ idle_count |-> idle_count, quarantine_date |-> None ]
    ELSE LET status == history[i].Status IN
         IF status = "ACTIVE"
         THEN [ idle_count |-> idle_count, quarantine_date |-> None ]
         ELSE IF status \in { "IDLE", "IDLE_WARNING" }
         THEN ScanHistory(history, i - 1, idle_count + 1)
         ELSE IF status = "QUARANTINE"
         THEN [ idle_count |-> idle_count + 1,
                quarantine_date |-> IF Truthy(history[i].Timestamp)
                                    THEN history[i].Timestamp ELSE None ]
         ELSE ScanHistory(history, i - 1, idle_count)

Decision(a, n, q) == [ action |-> a, idle_count |-> n, quarantine_date |-> q ]

(* determine_action with the quarantine marker consulted before the CPU    *)
(* reading.                                                                *)
determine_action_QuarantineFirst(history, current_cpu, current_time, cfg) ==
    LET s == ScanHistory(history, Len(history), 0) IN
    IF Truthy(s.quarantine_date)
    THEN IF current_time - s.quarantine_date >= cfg.GRACE_PERIOD_DAYS * SecondsPerDay
         THEN Decision("DELETE", s.idle_count, s.quarantine_date)
         ELSE Decision("QUARANTINE", s.idle_count, s.quarantine_date)
    ELSE IF current_cpu >= CPU_IDLE_THRESHOLD
    THEN Decision("ACTIVE", 0, None)
    ELSE IF s.idle_count >= cfg.IDLE_CHECKS_BEFORE_ACTION
    THEN IF cfg.SKIP_QUARANTINE
         THEN Decision("DELETE", s.idle_count, None)
         ELSE Decision("QUARANTINE", s.idle_count, None)
    ELSE Decision("WARN", s.idle_count, None)

(* The history loop without the `break` at an ACTIVE record. *)
RECURSIVE ScanHistory_NoBreak(_, _, _)
ScanHistory_NoBreak(history, i, idle_count) ==
    IF i = 0
    THEN [ idle_count |-> idle_count, quarantine_date |-> None ]
    ELSE LET status == history[i].Status IN
         IF status \in { "IDLE", "IDLE_WARNING" }
         THEN ScanHistory_NoBreak(history, i - 1, idle_count + 1)
         ELSE IF status = "QUARANTINE"
         THEN [ idle_count |-> idle_count + 1,
                quarantine_date |-> IF Truthy(history[i].Timestamp)
                                    THEN history[i].Timestamp ELSE None ]
         ELSE ScanHistory_NoBreak(history, i - 1, idle_count)

(* determine_action with the grace period compared by > instead of >=.     *)
determine_action_StrictGrace(history, current_cpu, current_time, cfg) ==
    IF current_cpu >= CPU_IDLE_THRESHOLD
    THEN Decision("ACTIVE", 0, None)
    ELSE LET s == ScanHistory(history, Len(history), 0) IN
         IF Truthy(s.quarantine_date)
         THEN IF current_time - s.quarantine_date > cfg.GRACE_PERIOD_DAYS * SecondsPerDay
              THEN Decision("DELETE", s.idle_count, s.quarantine_date)
              ELSE Decision("QUARANTINE", s.idle_count, s.quarantine_date)
         ELSE IF s.idle_count >= cfg.IDLE_CHECKS_BEFORE_ACTION
         THEN IF cfg.SKIP_QUARANTINE
              THEN Decision("DELETE", s.idle_count, None)
              ELSE Decision("QUARANTINE", s.idle_count, None)
         ELSE Decision("WARN", s.idle_count, None)

(* determine_action whose history loop does not stop at an ACTIVE record.   *)
determine_action_NoReset(history, current_cpu, current_time, cfg) ==
    IF current_cpu >= CPU_IDLE_THRESHOLD
    THEN Decision("ACTIVE", 0, None)
    ELSE LET s == ScanHistory_NoBreak(history, Len(history), 0) IN
         IF Truthy(s.quarantine_date)
         THEN IF current_time - s.quarantine_date >= cfg.GRACE_PERIOD_DAYS * SecondsPerDay
              THEN Decision("DELETE", s.idle_count, s.quarantine_date)
              ELSE Decision("QUARANTINE", s.idle_count, s.quarantine_date)
         ELSE IF s.idle_count >= cfg.IDLE_CHECKS_BEFORE_ACTION
         THEN IF cfg.SKIP_QUARANTINE
              THEN Decision("DELETE", s.idle_count, None)
              ELSE Decision("QUARANTINE", s.idle_count, None)
         ELSE Decision("WARN", s.idle_count, None)

(* determine_action with the idle threshold compared by > instead of >=.   *)
determine_action_StrictThreshold(history, current_cpu, current_time, cfg) ==
    IF current_cpu >= CPU_IDLE_THRESHOLD
    THEN Decision("ACTIVE", 0, None)
    ELSE LET s == ScanHistory(history, Len(history), 0) IN
         IF Truthy(s.quarantine_date)
         THEN IF current_time - s.quarantine_date >= cfg.GRACE_PERIOD_DAYS * SecondsPerDay
              THEN Decision("DELETE", s.idle_count, s.quarantine_date)
              ELSE Decision("QUARANTINE", s.idle_count, s.quarantine_date)
         ELSE IF s.idle_count > cfg.IDLE_CHECKS_BEFORE_ACTION
         THEN IF cfg.SKIP_QUARANTINE
              THEN Decision("DELETE", s.idle_count, None)
              ELSE Decision("QUARANTINE", s.idle_count, None)
         ELSE Decision("WARN", s.idle_count, None)

(* determine_action that warns below the idle threshold before it looks at *)
(* the quarantine date.                                                    *)
determine_action_WarnFirst(history, current_cpu, current_time, cfg) ==
    IF current_cpu >= CPU_IDLE_THRESHOLD
    THEN Decision("ACTIVE", 0, None)
    ELSE LET s == ScanHistory(history, Len(history), 0) IN
         IF s.idle_count < cfg.IDLE_CHECKS_BEFORE_ACTION
         THEN Decision("WARN", s.idle_count, None)
         ELSE IF Truthy(s.quarantine_date)
         THEN IF current_time - s.quarantine_date >= cfg.GRACE_PERIOD_DAYS * SecondsPerDay
              THEN Decision("DELETE", s.idle_count, s.quarantine_date)
              ELSE Decision("QUARANTINE", s.idle_count, s.quarantine_date)
         ELSE IF cfg.SKIP_QUARANTINE
         THEN Decision("DELETE", s.idle_count, None)
         ELSE Decision("QUARANTINE", s.idle_count, None)

(* determine_action(history, current_cpu), with the clock and the          *)
(* configuration it reads made explicit.  days_since_quarantine >= GRACE   *)
(* is compared in seconds.                                                 *)
determine_action(history, current_cpu, current_time, cfg) ==
    IF current_cpu >= CPU_IDLE_THRESHOLD
    THEN Decision("ACTIVE", 0, None)
    ELSE LET s == ScanHistory(history, Len(history), 0) IN
         IF Truthy(s.quarantine_date)
         THEN IF current_time - s.quarantine_date >= cfg.GRACE_PERIOD_DAYS * SecondsPerDay
              THEN Decision("DELETE", s.idle_count, s.quarantine_date)
              ELSE Decision("QUARANTINE", s.idle_count, s.quarantine_date)
         ELSE IF s.idle_count >= cfg.IDLE_CHECKS_BEFORE_ACTION
         THEN IF cfg.SKIP_QUARANTINE
              THEN Decision("DELETE", s.idle_count, None)
              ELSE Decision("QUARANTINE", s.idle_count, None)
         ELSE IF s.idle_count >= 1
         THEN Decision("WARN", s.idle_count, None)
         ELSE Decision("WARN", 0, None)

----------------------------------------------------------------------------
Item(status, idleCount, quarantineDate) ==
    [ Status |-> status, Timestamp |-> now, IdleCount |-> idleCount,
      QuarantineDate |-> quarantineDate ]

NoLast == [ rid |-> "none", action |-> "NONE", idle_count |-> 0,
            quarantine_date |-> None, idle |-> FALSE, cpu |-> 0,
            status |-> "none", history |-> << >>, calls |-> << >>, error |-> FALSE ]
(* lambda_handler has not returned: the cycle is running *)
NoResponse == [ statusCode |-> "none", validated |-> TRUE, counted |-> {}, errors |-> 0 ]
(* The savings calculator before its first run: no result, no S3 objects. *)
NoCalc == [ region |-> "none", order |-> << >>, runs |-> 0, statusCode |-> "none",
            savings_data |-> << >>, dashboard |-> << >>, reports |-> [ k \in {} |-> 0 ],
            csv |-> [ k \in {} |-> 0 ],
            scanned |-> [ items |-> << >>, month |-> << >> ], rerun |-> FALSE,
            cumulativeOk |-> TRUE, csvWritten |-> FALSE ]

(* No resource carries the tag CostGuardian. *)
NoTags == [ r \in Resources |-> "none" ]

NoProbe == [ history |-> << >>, cpu |-> 0, at |-> StartTime, result |-> Decision("NONE", 0, None) ]

(* What a loop iteration saw and did: the state of the resource and the    *)
(* history it read, the usage signal and whether the query for it raised,  *)
(* the decision, and the calls it made, in order.                          *)
Step(r, seen, d, calls) ==
    [ rid |-> r, action |-> d.action, idle_count |-> d.idle_count,
      quarantine_date |-> d.quarantine_date, idle |-> seen.idle, cpu |-> seen.cpu,
      status |-> state[r], history |-> seen.history, calls |-> calls,
      error |-> seen.error ]

InitCommon ==
    /\ now = StartTime
    /\ cycles = 1
    /\ pending = scope
    /\ table = [ r \in Resources |-> << >> ]
    /\ state = [ r \in Resources |->
                   IF r \in Instances THEN "running"
                   ELSE IF r \in LoadBalancers THEN "active"
                   ELSE IF r \in ElasticIps THEN "unattached"
                   ELSE IF r \in Buckets THEN "empty"
                   ELSE "available" ]
    /\ backups = [ r \in Resources |-> {} ]
    /\ errors = [ r \in Resources |-> 0 ]
    /\ last = NoLast
    /\ response = NoResponse
    /\ processed = {}
    /\ calc = NoCalc
    /\ tags = NoTags

InitEC2 ==
    /\ config \in Configs
    /\ scope = Instances
    /\ InitCommon
    /\ probe = NoProbe

----------------------------------------------------------------------------
(* get_cpu_utilization: the 24h average; 0.0 without datapoints, 100.0     *)
(* when the query raises.                                                  *)
get_cpu_utilization(reading) ==
    IF reading = MetricError THEN 100
    ELSE IF reading = NoDatapoints THEN 0
    ELSE reading

(* What one loop iteration leaves behind.  A put_item that raises is       *)
(* caught by the iteration's except clause, which counts an error.         *)
Finish(r, seen, d, calls, newTable, newState, newBackups, failed) ==
    /\ last' = Step(r, seen, d, calls)
    /\ table' = [ table EXCEPT ![r] = newTable ]
    /\ state' = [ state EXCEPT ![r] = newState ]
    /\ backups' = [ backups EXCEPT ![r] = newBackups ]
    /\ errors' = [ errors EXCEPT ![r] = IF failed THEN @ + 1 ELSE @ ]
    /\ pending' = pending \ { r }
    /\ processed' = processed \cup { r }
    /\ UNCHANGED << now, cycles, config, scope, probe, response, calc, tags >>

(* lambda_handler, `if action == 'ACTIVE'` *)
EC2Active(i, seen, d) ==
    \E putOk \in BOOLEAN :
        Finish(i, seen, d, << "put_item:ACTIVE" >>,
               IF putOk THEN put_item(table[i], Item("ACTIVE", None, None)) ELSE table[i],
               state[i], backups[i], ~putOk)

(* lambda_handler, `elif action == 'WARN'` *)
EC2Warn(i, seen, d) ==
    \E backup_success \in BOOLEAN, putOk \in BOOLEAN :
        Finish(i, seen, d,
               << "backup_instance_config", "put_item:IDLE_WARNING" >>
                 \o (IF putOk /\ d.idle_count = 0 THEN << "send_idle_alert" >> ELSE << >>),
               IF putOk
               THEN put_item(table[i], Item("IDLE_WARNING", d.idle_count + 1, None))
               ELSE table[i],
               state[i],
               IF backup_success THEN backups[i] \cup { "s3" } ELSE backups[i],
               ~putOk)

(* The running-instance QUARANTINE branch recording QUARANTINE whatever     *)
(* stop_instance returned.                                                 *)
EC2QuarantineStop_RecordFailure(i, seen, d) ==
    /\ state[i] = "running"
    /\ \E backup_success \in BOOLEAN, stop \in { "stopped", "ami_only", "failed" },
          putOk \in BOOLEAN :
        LET ami_id == (stop = "stopped")
            captured == (IF backup_success THEN { "s3" } ELSE {})
                          \cup (IF stop # "failed" THEN { "ami" } ELSE {})
        IN  Finish(i, seen, d,
                   << "backup_instance_config", "stop_instance" >>,
                   IF putOk
                   THEN put_item(table[i], Item("QUARANTINE", d.idle_count, now))
                   ELSE table[i],
                   IF ami_id THEN "stopped" ELSE state[i],
                   backups[i] \cup captured,
                   ~ami_id \/ ~putOk)

(* lambda_handler, `elif action == 'QUARANTINE'`, instance running:        *)
(* stop_instance creates an AMI, then stops; it returns the AMI id only    *)
(* when both calls went through.                                           *)
EC2QuarantineStop(i, seen, d) ==
    /\ state[i] = "running"
    /\ \E backup_success \in BOOLEAN, stop \in { "stopped", "ami_only", "failed" },
          putOk \in BOOLEAN :
        LET ami_id == (stop = "stopped")
            captured == (IF backup_success THEN { "s3" } ELSE {})
                          \cup (IF stop # "failed" THEN { "ami" } ELSE {})
        IN  Finish(i, seen, d,
                   << "backup_instance_config", "stop_instance" >>
                     \o (IF ami_id THEN << "put_item:QUARANTINE" >> ELSE << >>)
                     \o (IF ami_id /\ putOk THEN << "send_quarantine_alert" >> ELSE << >>),
                   IF ami_id /\ putOk
                   THEN put_item(table[i], Item("QUARANTINE", d.idle_count, now))
                   ELSE table[i],
                   IF ami_id THEN "stopped" ELSE state[i],
                   backups[i] \cup captured,
                   ~ami_id \/ ~putOk)

(* lambda_handler, `elif action == 'QUARANTINE'`, instance already stopped *)
EC2QuarantineWait(i, seen, d) ==
    /\ state[i] # "running"
    /\ \E putOk \in BOOLEAN :
        Finish(i, seen, d, << "put_item:QUARANTINE" >>,
               IF putOk
               THEN put_item(table[i], Item("QUARANTINE", d.idle_count, d.quarantine_date))
               ELSE table[i],
               state[i], backups[i], ~putOk)

(* The DELETE branch without the KeyCount test.                            *)
EC2Delete_Unverified(i, seen, d) ==
    \E listOk \in BOOLEAN, terminate_success \in BOOLEAN, putOk \in BOOLEAN :
        LET KeyCount == IF "s3" \in backups[i] THEN 1 ELSE 0
            done == listOk /\ terminate_success
        IN  Finish(i, seen, d,
                   << IF ~listOk THEN "list_objects_v2:error"
                      ELSE IF KeyCount > 0 THEN "list_objects_v2:found"
                      ELSE "list_objects_v2:none" >>
                     \o (IF listOk THEN << "terminate_instance" >> ELSE << >>)
                     \o (IF done THEN << "delete_security_groups", "put_item:DELETED" >> ELSE << >>)
                     \o (IF done /\ putOk THEN << "send_deletion_alert" >> ELSE << >>),
                   IF done /\ putOk
                   THEN put_item(table[i], Item("DELETED", None, d.quarantine_date))
                   ELSE table[i],
                   IF done THEN "shutting-down" ELSE state[i],
                   backups[i],
                   ~done \/ ~putOk)

(* lambda_handler, `elif action == 'DELETE'`: list_objects_v2 under the    *)
(* instance's prefix, terminate_instance only when KeyCount > 0.           *)
EC2Delete(i, seen, d) ==
    \E listOk \in BOOLEAN, terminate_success \in BOOLEAN, putOk \in BOOLEAN :
        LET KeyCount == IF "s3" \in backups[i] THEN 1 ELSE 0
            verified == listOk /\ KeyCount > 0
            done == verified /\ terminate_success
        IN  Finish(i, seen, d,
                   << IF ~listOk THEN "list_objects_v2:error"
                      ELSE IF KeyCount > 0 THEN "list_objects_v2:found"
                      ELSE "list_objects_v2:none" >>
                     \o (IF verified THEN << "terminate_instance" >> ELSE << >>)
                     \o (IF done THEN << "delete_security_groups", "put_item:DELETED" >> ELSE << >>)
                     \o (IF done /\ putOk THEN << "send_deletion_alert" >> ELSE << >>),
                   IF done /\ putOk
                   THEN put_item(table[i], Item("DELETED", None, d.quarantine_date))
                   ELSE table[i],
                   IF done THEN "shutting-down" ELSE state[i],
                   backups[i],
                   ~done \/ ~putOk)

(* lambda_handler, one iteration of `for instance in all_instances` *)
CheckInstance(i) ==
    /\ i \in pending
    /\ i \in Instances
    /\ IF state[i] = "terminated"
       THEN /\ pending' = pending \ { i }
            /\ last' = [ NoLast EXCEPT !.rid = i, !.action = "SKIP" ]
            /\ processed' = processed \cup { i }
            /\ UNCHANGED << now, cycles, config, scope, table, state, backups, errors, probe,
                            response, calc, tags >>
       ELSE \E queryOk \in BOOLEAN, reading \in CpuReadings \cup { MetricError, NoDatapoints } :
            LET history == get_resource_history(table[i], queryOk, now, HistoryDays)
                cpu_usage == IF state[i] = "running" THEN get_cpu_utilization(reading) ELSE 0
                d == determine_action(history, cpu_usage, now, config)
                seen == [ history |-> history, cpu |-> cpu_usage,
                          idle |-> cpu_usage < CPU_IDLE_THRESHOLD,
                          error |-> (state[i] = "running" /\ reading = MetricError) ]
            IN  \/ d.action = "ACTIVE" /\ EC2Active(i, seen, d)
                \/ d.action = "WARN" /\ EC2Warn(i, seen, d)
                \/ d.action = "QUARANTINE" /\ EC2QuarantineStop(i, seen, d)
                \/ d.action = "QUARANTINE" /\ EC2QuarantineWait(i, seen, d)
                \/ d.action = "DELETE" /\ EC2Delete(i, seen, d)

(* The instance changes state outside the monitor: its owner starts it    *)
(* again, and a terminated instance finishes shutting down.                *)
InstanceStateChange(i) ==
    /\ i \in Instances
    /\ \/ state[i] = "stopped" /\ state' = [ state EXCEPT ![i] = "running" ]
       \/ state[i] = "shutting-down" /\ state' = [ state EXCEPT ![i] = "terminated" ]
    /\ UNCHANGED << now, cycles, config, scope, pending, table, backups, errors, last, probe,
                    response, processed, calc, tags >>

(* The resources the describe_* calls return: NAT gateways being deleted  *)
(* are filtered out, deleted load balancers and databases are gone.        *)
Enumerated(r) == state[r] \notin { "deleting", "deleted", "released" }

(* The next scheduled invocation of lambda_handler: the previous one has   *)
(* visited every resource; the counters start from 0 again.                *)
NextCycle ==
    /\ pending = {}
    /\ scope # {}
    /\ cycles < (IF scope \subseteq DbInstances THEN MaxRdsCycles ELSE MaxCycles)
    /\ cycles' = cycles + 1
    /\ \E delta \in (IF scope \subseteq DbInstances THEN RdsDeltas ELSE Deltas) :
          now' = now + delta
    /\ pending' = { r \in scope : Enumerated(r) }
    /\ errors' = [ r \in Resources |-> 0 ]
    /\ last' = NoLast
    /\ response' = NoResponse
    /\ processed' = {}
    /\ UNCHANGED << config, scope, table, state, backups, probe, calc, tags >>

NextEC2 ==
    \/ \E i \in Instances : CheckInstance(i)
    \/ \E i \in Instances : InstanceStateChange(i)
    \/ NextCycle

SpecEC2 == InitEC2 /\ [][NextEC2]_vars

----------------------------------------------------------------------------
(* determine_action called directly, on any history of status records     *)
(* ordered by Timestamp, at any time not before its newest record.         *)

ProbeAppend ==
    /\ scope = {}
    /\ probe.result.action = "NONE"
    /\ Len(probe.history) < MaxProbeLen
    /\ \E status \in Statuses, delta \in Deltas :
        probe' = [ history |-> Append(probe.history,
                                      [ Status |-> status, Timestamp |-> probe.at + delta,
                                        IdleCount |-> None, QuarantineDate |-> None ]),
                   cpu |-> 0, at |-> probe.at + delta,
                   result |-> Decision("NONE", 0, None) ]
    /\ UNCHANGED << now, cycles, config, scope, pending, table, state, backups, errors, last,
                    response, processed, calc, tags >>

ProbeCall ==
    /\ scope = {}
    /\ probe.result.action = "NONE"
    /\ \E current_cpu \in CpuReadings, delta \in Deltas \cup { 0 } :
        LET history == probe.history
            newest == probe.at
        IN  probe' = [ history |-> history, cpu |-> current_cpu, at |-> newest + delta,
                       result |-> determine_action(history, current_cpu, newest + delta, config) ]
    /\ UNCHANGED << now, cycles, config, scope, pending, table, state, backups, errors, last,
                    response, processed, calc, tags >>

InitProbe ==
    /\ config \in Configs
    /\ scope = {}
    /\ InitCommon
    /\ probe = NoProbe

NextProbe == ProbeAppend \/ ProbeCall

SpecProbe == InitProbe /\ [][NextProbe]_vars

----------------------------------------------------------------------------
(* `for entry in reversed(history)`: count the records whose status is in  *)
(* `counted`, stop at the first record whose status is in `stop`.          *)
RECURSIVE CountConsecutive(_, _, _, _)
CountConsecutive(history, i, counted, stop) ==
    IF i = 0 THEN 0
    ELSE IF history[i].Status \in counted
    THEN 1 + CountConsecutive(history, i - 1, counted, stop)
    ELSE IF history[i].Status \in stop THEN 0
    ELSE CountConsecutive(history, i - 1, counted, stop)

(* The three branches the NAT gateway and the load balancer loops share:   *)
(* active; idle below the threshold (backup, warning record); idle at the  *)
(* threshold (backup, delete call, DELETED record when it succeeded).      *)
IdleLifecycle(r, seen, idle_count, threshold, backupCall, deleteCall) ==
    \/ /\ ~seen.idle
       /\ \E putOk \in BOOLEAN :
            Finish(r, seen, Decision("ACTIVE", idle_count, None),
                   << "put_item:ACTIVE" >>,
                   IF putOk THEN put_item(table[r], Item("ACTIVE", None, None)) ELSE table[r],
                   state[r], backups[r], ~putOk)
    \/ /\ seen.idle
       /\ idle_count < threshold
       /\ \E backup_success \in BOOLEAN, putOk \in BOOLEAN :
            Finish(r, seen, Decision("WARN", idle_count, None),
                   << backupCall, "put_item:IDLE_WARNING" >>
                     \o (IF putOk /\ idle_count = 0 THEN << "send_alert" >> ELSE << >>),
                   IF putOk
                   THEN put_item(table[r], Item("IDLE_WARNING", idle_count + 1, None))
                   ELSE table[r],
                   state[r],
                   IF backup_success THEN backups[r] \cup { "s3" } ELSE backups[r],
                   ~putOk)
    \/ /\ seen.idle
       /\ idle_count >= threshold
       /\ \E backup_success \in BOOLEAN, delete_success \in BOOLEAN, putOk \in BOOLEAN :
            Finish(r, seen, Decision("DELETE", idle_count, None),
                   << backupCall, deleteCall >>
                     \o (IF delete_success THEN << "put_item:DELETED" >> ELSE << >>)
                     \o (IF delete_success /\ putOk THEN << "send_alert" >> ELSE << >>),
                   IF delete_success /\ putOk
                   THEN put_item(table[r], Item("DELETED", None, None))
                   ELSE table[r],
                   IF delete_success THEN "deleting" ELSE state[r],
                   IF backup_success THEN backups[r] \cup { "s3" } ELSE backups[r],
                   ~delete_success \/ ~putOk)

(* lambda_handler, one iteration of `for nat_gw in nat_gateways`;          *)
(* check_nat_gateway_usage reports "not idle" when its query raises.       *)
CheckNatGateway(n) ==
    /\ n \in pending
    /\ n \in NatGateways
    /\ \E usage \in { "idle", "active", "error" }, queryOk \in BOOLEAN :
        LET history == get_resource_history(table[n], queryOk, now, HistoryDays)
            idle_count == CountConsecutive(history, Len(history),
                                           { "IDLE", "IDLE_WARNING" }, { "ACTIVE" })
            seen == [ history |-> history, cpu |-> 0, idle |-> (usage = "idle"),
                      error |-> (usage = "error") ]
        IN  IdleLifecycle(n, seen, idle_count, NatIdleChecks,
                          "backup_nat_gateway_config", "delete_nat_gateway")

(* lambda_handler, one iteration of `for lb in load_balancers` *)
CheckLoadBalancer(lb) ==
    /\ lb \in pending
    /\ lb \in LoadBalancers
    /\ \E usage \in { "idle", "active", "error" }, queryOk \in BOOLEAN :
        LET history == get_resource_history(table[lb], queryOk, now, HistoryDays)
            idle_count == CountConsecutive(history, Len(history),
                                           { "IDLE", "IDLE_WARNING" }, { "ACTIVE" })
            seen == [ history |-> history, cpu |-> 0, idle |-> (usage = "idle"),
                      error |-> (usage = "error") ]
        IN  IdleLifecycle(lb, seen, idle_count, LB_IDLE_CHECKS,
                          "backup_load_balancer_config", "delete_load_balancer")

InitNAT ==
    /\ config = [ IDLE_CHECKS_BEFORE_ACTION |-> 1, SKIP_QUARANTINE |-> TRUE,
                  GRACE_PERIOD_DAYS |-> 0 ]
    /\ scope = NatGateways
    /\ InitCommon
    /\ probe = NoProbe

NextNAT ==
    \/ \E n \in NatGateways : CheckNatGateway(n)
    \/ NextCycle

SpecNAT == InitNAT /\ [][NextNAT]_vars

InitLB ==
    /\ config = [ IDLE_CHECKS_BEFORE_ACTION |-> 1, SKIP_QUARANTINE |-> TRUE,
                  GRACE_PERIOD_DAYS |-> 0 ]
    /\ scope = LoadBalancers
    /\ InitCommon
    /\ probe = NoProbe

NextLB ==
    \/ \E lb \in LoadBalancers : CheckLoadBalancer(lb)
    \/ NextCycle

SpecLB == InitLB /\ [][NextLB]_vars

----------------------------------------------------------------------------
(* `for entry in reversed(history)`: the Timestamp of the newest STOPPED   *)
(* record, None without one.                                               *)
RECURSIVE StoppedDate(_, _)
StoppedDate(history, i) ==
    IF i = 0 THEN None
    ELSE IF history[i].Status = "STOPPED" THEN history[i].Timestamp
    ELSE StoppedDate(history, i - 1)

(* lambda_handler, the `else` branch of the RDS loop (idle for 3+ checks): *)
(* backup, snapshot, then stop a running database, or delete a stopped one *)
(* once its newest STOPPED record is 7 days old.  The QuarantineDate field *)
(* of the records stands for StoppedDate.                                  *)
RdsStopOrDelete(db, seen, d) ==
    \E backup_success \in BOOLEAN, snapshot_id \in BOOLEAN, success \in BOOLEAN,
       putOk \in BOOLEAN :
        LET captured == (IF backup_success THEN { "s3" } ELSE {})
                          \cup (IF snapshot_id THEN { "snapshot" } ELSE {})
            stopped_date == StoppedDate(seen.history, Len(seen.history))
            first == << "backup_rds_config",
                        IF snapshot_id THEN "create_rds_snapshot:ok"
                        ELSE "create_rds_snapshot:failed" >>
        IN  IF ~snapshot_id
            THEN Finish(db, seen, d, first, table[db], state[db],
                        backups[db] \cup captured, TRUE)
            ELSE IF state[db] = "available"
            THEN Finish(db, seen, d,
                        first \o << "stop_rds_instance" >>
                          \o (IF success THEN << "put_item:STOPPED" >> ELSE << >>),
                        IF success /\ putOk
                        THEN put_item(table[db], Item("STOPPED", None, now))
                        ELSE table[db],
                        IF success THEN "stopped" ELSE state[db],
                        backups[db] \cup captured,
                        ~success \/ ~putOk)
            ELSE IF ~Truthy(stopped_date)
            THEN Finish(db, seen, d, first, table[db], state[db],
                        backups[db] \cup captured, FALSE)
            ELSE IF now - stopped_date >= RdsGraceDays * SecondsPerDay
            THEN Finish(db, seen, d,
                        first \o << "delete_rds_instance" >>
                          \o (IF success THEN << "put_item:DELETED" >> ELSE << >>),
                        IF success /\ putOk
                        THEN put_item(table[db], Item("DELETED", None, None))
                        ELSE table[db],
                        IF success THEN "deleting" ELSE state[db],
                        backups[db] \cup captured,
                        ~success \/ ~putOk)
            ELSE Finish(db, seen, d,
                        first \o << "put_item:STOPPED" >>,
                        IF putOk
                        THEN put_item(table[db], Item("STOPPED", None, stopped_date))
                        ELSE table[db],
                        state[db], backups[db] \cup captured, ~putOk)

(* lambda_handler, one iteration of `for db_instance in rds_instances`;    *)
(* a stopped database counts as idle, check_rds_usage reports "not idle"   *)
(* when its query raises.                                                  *)
CheckRdsInstance(db) ==
    /\ db \in pending
    /\ db \in DbInstances
    /\ state[db] \in { "available", "stopped" }
    /\ \E usage \in { "idle", "active", "error" }, queryOk \in BOOLEAN :
        LET history == get_resource_history(table[db], queryOk, now, HistoryDays)
            is_idle == IF state[db] = "available" THEN usage = "idle" ELSE TRUE
            idle_count == CountConsecutive(history, Len(history),
                                           { "IDLE", "IDLE_WARNING" }, { "ACTIVE" })
            seen == [ history |-> history, cpu |-> 0, idle |-> is_idle,
                      error |-> (state[db] = "available" /\ usage = "error") ]
        IN  \/ /\ ~is_idle
               /\ \E putOk \in BOOLEAN :
                    Finish(db, seen, Decision("ACTIVE", idle_count, None),
                           << "put_item:ACTIVE" >>,
                           IF putOk THEN put_item(table[db], Item("ACTIVE", None, None))
                           ELSE table[db],
                           state[db], backups[db], ~putOk)
            \/ /\ is_idle
               /\ idle_count < RdsIdleChecks
               /\ \E backup_success \in BOOLEAN, putOk \in BOOLEAN :
                    Finish(db, seen, Decision("WARN", idle_count, None),
                           << "backup_rds_config", "put_item:IDLE_WARNING" >>
                             \o (IF putOk /\ idle_count = 0 THEN << "send_alert" >> ELSE << >>),
                           IF putOk
                           THEN put_item(table[db], Item("IDLE_WARNING", idle_count + 1, None))
                           ELSE table[db],
                           state[db],
                           IF backup_success THEN backups[db] \cup { "s3" } ELSE backups[db],
                           ~putOk)
            \/ /\ is_idle
               /\ idle_count >= RdsIdleChecks
               /\ RdsStopOrDelete(db, seen, Decision("STOP_OR_DELETE", idle_count, None))

(* A stopped database is started again, by its owner or by AWS (which     *)
(* starts a stopped instance after 7 days).                                *)
DbInstanceStarts(db) ==
    /\ db \in DbInstances
    /\ state[db] = "stopped"
    /\ state' = [ state EXCEPT ![db] = "available" ]
    /\ UNCHANGED << now, cycles, config, scope, pending, table, backups, errors, last, probe,
                    response, processed, calc, tags >>

InitRDS ==
    /\ config = [ IDLE_CHECKS_BEFORE_ACTION |-> 1, SKIP_QUARANTINE |-> TRUE,
                  GRACE_PERIOD_DAYS |-> 0 ]
    /\ scope = DbInstances
    /\ InitCommon
    /\ probe = NoProbe

NextRDS ==
    \/ \E db \in DbInstances : CheckRdsInstance(db)
    \/ \E db \in DbInstances : DbInstanceStarts(db)
    \/ NextCycle

SpecRDS == InitRDS /\ [][NextRDS]_vars

----------------------------------------------------------------------------
(* An iteration that ends at a protection tag: `continue` before the try.  *)
Skip(r) ==
    /\ pending' = pending \ { r }
    /\ processed' = processed \cup { r }
    /\ last' = [ NoLast EXCEPT !.rid = r, !.action = "SKIP" ]
    /\ UNCHANGED << now, cycles, config, scope, table, state, backups, errors, probe,
                    response, calc, tags >>

(* lambda_handler, one iteration of `for eip in elastic_ips` *)
CheckElasticIp(e) ==
    /\ e \in pending
    /\ e \in ElasticIps
    /\ \E queryOk \in BOOLEAN, putOk \in BOOLEAN, release_success \in BOOLEAN :
        LET is_unattached == state[e] = "unattached"
            history == IF is_unattached
                       THEN get_resource_history(table[e], queryOk, now, HistoryDays)
                       ELSE << >>
            unattached_count == CountConsecutive(history, Len(history),
                                                 { "UNATTACHED" }, { "ATTACHED" })
            seen == [ history |-> history, cpu |-> 0, idle |-> is_unattached,
                      error |-> FALSE ]
        IN  IF ~is_unattached
            THEN Finish(e, seen, Decision("ACTIVE", 0, None), << "put_item:ATTACHED" >>,
                        IF putOk THEN put_item(table[e], Item("ATTACHED", None, None))
                        ELSE table[e],
                        state[e], backups[e], ~putOk)
            ELSE IF unattached_count < EipIdleChecks
            THEN Finish(e, seen, Decision("WARN", unattached_count, None),
                        << "put_item:UNATTACHED" >>
                          \o (IF putOk /\ unattached_count = 0
                              THEN << "send_elastic_ip_alert" >> ELSE << >>),
                        IF putOk
                        THEN put_item(table[e], Item("UNATTACHED", unattached_count + 1, None))
                        ELSE table[e],
                        state[e], backups[e], ~putOk)
            ELSE Finish(e, seen, Decision("DELETE", unattached_count, None),
                        << "release_elastic_ip" >>
                          \o (IF release_success THEN << "put_item:RELEASED" >> ELSE << >>)
                          \o (IF release_success /\ putOk
                              THEN << "send_elastic_ip_alert" >> ELSE << >>),
                        IF release_success /\ putOk
                        THEN put_item(table[e], Item("RELEASED", None, None))
                        ELSE table[e],
                        IF release_success THEN "released" ELSE state[e],
                        backups[e],
                        ~release_success \/ ~putOk)

(* The address is associated or disassociated by its owner. *)
AddressChanges(e) ==
    /\ e \in ElasticIps \cap scope
    /\ state[e] \in { "unattached", "attached" }
    /\ state' = [ state EXCEPT ![e] = IF @ = "attached" THEN "unattached" ELSE "attached" ]
    /\ UNCHANGED << now, cycles, config, scope, pending, table, backups, errors, last, probe,
                    response, processed, calc, tags >>

InitEIP ==
    /\ config = [ IDLE_CHECKS_BEFORE_ACTION |-> 1, SKIP_QUARANTINE |-> TRUE,
                  GRACE_PERIOD_DAYS |-> 0 ]
    /\ scope = ElasticIps
    /\ InitCommon
    /\ probe = NoProbe

NextEIP ==
    \/ \E e \in ElasticIps : CheckElasticIp(e)
    \/ \E e \in ElasticIps : AddressChanges(e)
    \/ NextCycle

SpecEIP == InitEIP /\ [][NextEIP]_vars

----------------------------------------------------------------------------
(* The empty-bucket branch deleting only above three recorded checks. *)
S3Empty_StrictCount(b, seen, empty_count) ==
    \E putOk \in BOOLEAN, delete_success \in BOOLEAN :
        IF empty_count <= S3EmptyChecks
        THEN Finish(b, seen, Decision("WARN", empty_count, None),
                    << "put_item:EMPTY" >>,
                    IF putOk THEN put_item(table[b], Item("EMPTY", empty_count + 1, None))
                    ELSE table[b],
                    state[b], backups[b], ~putOk)
        ELSE Finish(b, seen, Decision("DELETE", empty_count, None),
                    << "delete_empty_bucket" >>
                      \o (IF delete_success THEN << "put_item:DELETED" >> ELSE << >>),
                    IF delete_success /\ putOk
                    THEN put_item(table[b], Item("DELETED", None, None))
                    ELSE table[b],
                    IF delete_success THEN "deleted" ELSE state[b],
                    backups[b],
                    ~delete_success \/ ~putOk)

(* lambda_handler, `if is_empty` of the S3 loop *)
S3Empty(b, seen, empty_count) ==
    \E putOk \in BOOLEAN, delete_success \in BOOLEAN :
        IF empty_count < S3EmptyChecks
        THEN Finish(b, seen, Decision("WARN", empty_count, None),
                    << "put_item:EMPTY" >>
                      \o (IF putOk /\ empty_count = 0
                          THEN << "send_s3_bucket_alert:EMPTY_WARNING" >> ELSE << >>),
                    IF putOk THEN put_item(table[b], Item("EMPTY", empty_count + 1, None))
                    ELSE table[b],
                    state[b], backups[b], ~putOk)
        ELSE Finish(b, seen, Decision("DELETE", empty_count, None),
                    << "delete_empty_bucket" >>
                      \o (IF delete_success THEN << "put_item:DELETED" >> ELSE << >>)
                      \o (IF delete_success /\ putOk
                          THEN << "send_s3_bucket_alert:DELETED" >> ELSE << >>),
                    IF delete_success /\ putOk
                    THEN put_item(table[b], Item("DELETED", None, None))
                    ELSE table[b],
                    IF delete_success THEN "deleted" ELSE state[b],
                    backups[b],
                    ~delete_success \/ ~putOk)

(* lambda_handler, the `else` of `if is_empty`: a bucket without lifecycle *)
(* configuration gets one and a LIFECYCLE_APPLIED record; then the HAS_DATA *)
(* record is written, with int(datetime.now().timestamp()) read again: the *)
(* same second or the next one.                                            *)
S3HasData(b, seen) ==
    \E lifecycle \in { "exists", "applied", "failed" }, putApplied \in BOOLEAN,
       putOk \in BOOLEAN, second \in { now, now + 1 } :
        LET applied == lifecycle = "applied"
            reached == ~applied \/ putApplied
            afterFirst == IF applied /\ putApplied
                          THEN put_item(table[b], Item("LIFECYCLE_APPLIED", None, None))
                          ELSE table[b]
            hasData == [ Item("HAS_DATA", None, None) EXCEPT !.Timestamp = second ]
        IN  Finish(b, seen, Decision("ACTIVE", 0, None),
                   (IF lifecycle = "exists" THEN << >> ELSE << "apply_lifecycle_policy" >>)
                     \o (IF applied THEN << "put_item:LIFECYCLE_APPLIED" >> ELSE << >>)
                     \o (IF applied /\ putApplied
                         THEN << "send_s3_bucket_alert:LIFECYCLE_APPLIED" >> ELSE << >>)
                     \o (IF reached THEN << "put_item:HAS_DATA" >> ELSE << >>),
                   IF reached /\ putOk THEN put_item(afterFirst, hasData) ELSE afterFirst,
                   state[b], backups[b],
                   lifecycle = "failed" \/ ~reached \/ ~putOk)

(* lambda_handler, one iteration of `for bucket in s3_buckets`;            *)
(* is_bucket_empty reports "not empty" when its listing raises.            *)
CheckBucket(b) ==
    /\ b \in pending
    /\ b \in Buckets
    /\ \/ Skip(b)
       \/ \E listOk \in BOOLEAN, queryOk \in BOOLEAN :
            LET is_empty == listOk /\ state[b] = "empty"
                history == IF is_empty
                           THEN get_resource_history(table[b], queryOk, now, HistoryDays)
                           ELSE << >>
                empty_count == CountConsecutive(history, Len(history),
                                                { "EMPTY" }, { "HAS_DATA", "ACTIVE" })
                seen == [ history |-> history, cpu |-> 0, idle |-> is_empty,
                          error |-> ~listOk ]
            IN  \/ is_empty /\ S3Empty(b, seen, empty_count)
                \/ ~is_empty /\ S3HasData(b, seen)

(* Objects are uploaded to the bucket, or the last one is removed. *)
BucketChanges(b) ==
    /\ b \in Buckets \cap scope
    /\ state[b] \in { "empty", "has_data" }
    /\ state' = [ state EXCEPT ![b] = IF @ = "empty" THEN "has_data" ELSE "empty" ]
    /\ UNCHANGED << now, cycles, config, scope, pending, table, backups, errors, last, probe,
                    response, processed, calc, tags >>

InitS3 ==
    /\ config = [ IDLE_CHECKS_BEFORE_ACTION |-> 1, SKIP_QUARANTINE |-> TRUE,
                  GRACE_PERIOD_DAYS |-> 0 ]
    /\ scope = Buckets
    /\ InitCommon
    /\ probe = NoProbe

NextS3 ==
    \/ \E b \in Buckets : CheckBucket(b)
    \/ \E b \in Buckets : BucketChanges(b)
    \/ NextCycle

SpecS3 == InitS3 /\ [][NextS3]_vars

----------------------------------------------------------------------------
(* The volume loop deleting whether or not the snapshot was created. *)
CheckVolume_DeletesWithoutSnapshot(v) ==
    /\ v \in pending
    /\ v \in Volumes
    /\ state[v] \in { "available", "in-use" }
    /\ \E queryOk \in BOOLEAN, putOk \in BOOLEAN, backup_success \in BOOLEAN,
          snapshot_id \in BOOLEAN, delete_success \in BOOLEAN :
        LET available == state[v] = "available"
            history == IF available
                       THEN get_resource_history(table[v], queryOk, now, HistoryDays)
                       ELSE << >>
            available_count == CountConsecutive(history, Len(history),
                                                { "AVAILABLE" }, { "IN_USE" })
            seen == [ history |-> history, cpu |-> 0, idle |-> available,
                      error |-> FALSE ]
            captured == (IF backup_success THEN { "s3" } ELSE {})
        IN  IF ~available
            THEN Finish(v, seen, Decision("ACTIVE", 0, None), << "put_item:IN_USE" >>,
                        IF putOk THEN put_item(table[v], Item("IN_USE", None, None))
                        ELSE table[v],
                        state[v], backups[v], ~putOk)
            ELSE IF available_count < EbsIdleChecks
            THEN Finish(v, seen, Decision("WARN", available_count, None),
                        << "backup_ebs_volume_config", "put_item:AVAILABLE" >>
                          \o (IF putOk /\ available_count = 0
                              THEN << "send_ebs_volume_alert" >> ELSE << >>),
                        IF putOk
                        THEN put_item(table[v], Item("AVAILABLE", available_count + 1, None))
                        ELSE table[v],
                        state[v], backups[v] \cup captured, ~putOk)
            ELSE LET deleted == delete_success IN
                 Finish(v, seen, Decision("DELETE", available_count, None),
                        << "backup_ebs_volume_config",
                           IF snapshot_id THEN "create_ebs_snapshot:ok"
                           ELSE "create_ebs_snapshot:failed" >>
                          \o << "delete_ebs_volume" >>
                          \o (IF deleted THEN << "put_item:DELETED" >> ELSE << >>)
                          \o (IF deleted /\ putOk THEN << "send_ebs_volume_alert" >> ELSE << >>),
                        IF deleted /\ putOk
                        THEN put_item(table[v], Item("DELETED", None, None))
                        ELSE table[v],
                        IF deleted THEN "deleting" ELSE state[v],
                        backups[v] \cup captured
                          \cup (IF snapshot_id THEN { "snapshot" } ELSE {}),
                        ~deleted \/ ~putOk)

(* lambda_handler, one iteration of `for volume in ebs_volumes` *)
CheckVolume(v) ==
    /\ v \in pending
    /\ v \in Volumes
    /\ state[v] \in { "available", "in-use" }
    /\ \E queryOk \in BOOLEAN, putOk \in BOOLEAN, backup_success \in BOOLEAN,
          snapshot_id \in BOOLEAN, delete_success \in BOOLEAN :
        LET available == state[v] = "available"
            history == IF available
                       THEN get_resource_history(table[v], queryOk, now, HistoryDays)
                       ELSE << >>
            available_count == CountConsecutive(history, Len(history),
                                                { "AVAILABLE" }, { "IN_USE" })
            seen == [ history |-> history, cpu |-> 0, idle |-> available,
                      error |-> FALSE ]
            captured == (IF backup_success THEN { "s3" } ELSE {})
        IN  IF ~available
            THEN Finish(v, seen, Decision("ACTIVE", 0, None), << "put_item:IN_USE" >>,
                        IF putOk THEN put_item(table[v], Item("IN_USE", None, None))
                        ELSE table[v],
                        state[v], backups[v], ~putOk)
            ELSE IF available_count < EbsIdleChecks
            THEN Finish(v, seen, Decision("WARN", available_count, None),
                        << "backup_ebs_volume_config", "put_item:AVAILABLE" >>
                          \o (IF putOk /\ available_count = 0
                              THEN << "send_ebs_volume_alert" >> ELSE << >>),
                        IF putOk
                        THEN put_item(table[v], Item("AVAILABLE", available_count + 1, None))
                        ELSE table[v],
                        state[v], backups[v] \cup captured, ~putOk)
            ELSE LET deleted == snapshot_id /\ delete_success IN
                 Finish(v, seen, Decision("DELETE", available_count, None),
                        << "backup_ebs_volume_config",
                           IF snapshot_id THEN "create_ebs_snapshot:ok"
                           ELSE "create_ebs_snapshot:failed" >>
                          \o (IF snapshot_id THEN << "delete_ebs_volume" >> ELSE << >>)
                          \o (IF deleted THEN << "put_item:DELETED" >> ELSE << >>)
                          \o (IF deleted /\ putOk THEN << "send_ebs_volume_alert" >> ELSE << >>),
                        IF deleted /\ putOk
                        THEN put_item(table[v], Item("DELETED", None, None))
                        ELSE table[v],
                        IF deleted THEN "deleting" ELSE state[v],
                        backups[v] \cup captured
                          \cup (IF snapshot_id THEN { "snapshot" } ELSE {}),
                        ~deleted \/ ~putOk)

(* The volume is attached to an instance or detached from it. *)
VolumeChanges(v) ==
    /\ v \in Volumes \cap scope
    /\ state[v] \in { "available", "in-use" }
    /\ state' = [ state EXCEPT ![v] = IF @ = "in-use" THEN "available" ELSE "in-use" ]
    /\ UNCHANGED << now, cycles, config, scope, pending, table, backups, errors, last, probe,
                    response, processed, calc, tags >>

InitEBS ==
    /\ config = [ IDLE_CHECKS_BEFORE_ACTION |-> 1, SKIP_QUARANTINE |-> TRUE,
                  GRACE_PERIOD_DAYS |-> 0 ]
    /\ scope = Volumes
    /\ InitCommon
    /\ probe = NoProbe

NextEBS ==
    \/ \E v \in Volumes : CheckVolume(v)
    \/ \E v \in Volumes : VolumeChanges(v)
    \/ NextCycle

SpecEBS == InitEBS /\ [][NextEBS]_vars

----------------------------------------------------------------------------
(* A whole run of lambda_handler over an account with an instance and a    *)
(* volume: validation, the loops in their order, the return value.         *)
RunScope == { "i-001", "vol-001" }

(* The position of each resource type's loop in lambda_handler *)
LoopRank(r) ==
    IF r \in Instances THEN 1
    ELSE IF r \in NatGateways THEN 2
    ELSE IF r \in ElasticIps THEN 3
    ELSE IF r \in DbInstances THEN 4
    ELSE IF r \in Buckets THEN 5
    ELSE IF r \in Volumes THEN 6
    ELSE 7

NextInLine(r) ==
    /\ response.statusCode = "none"
    /\ r \in pending
    /\ \A q \in pending : LoopRank(r) <= LoopRank(q)

(* `return {'statusCode': 200, 'body': json.dumps({..., 'stats': stats})}`: *)
(* stats is the dictionary of the EC2 loop.                                *)
Return ==
    /\ scope = RunScope
    /\ response.statusCode = "none"
    /\ pending = {}
    /\ response' = [ statusCode |-> "200", validated |-> TRUE, counted |-> { "EC2" },
                     errors |-> errors["i-001"] ]
    /\ UNCHANGED << now, cycles, config, scope, pending, table, state, backups, errors, last,
                    probe, processed, calc, tags >>

(* The next invocation with validate_configuration not re-raising.         *)
StartRun_NoRaise ==
    /\ scope = RunScope
    /\ response.statusCode # "none"
    /\ cycles < MaxRuns
    /\ cycles' = cycles + 1
    /\ \E delta \in Deltas : now' = now + delta
    /\ errors' = [ r \in Resources |-> 0 ]
    /\ last' = NoLast
    /\ processed' = {}
    /\ \E validateOk \in BOOLEAN, describeOk \in BOOLEAN :
         IF ~describeOk
         THEN /\ response' = [ statusCode |-> "500", validated |-> validateOk,
                               counted |-> {}, errors |-> 0 ]
              /\ pending' = {}
         ELSE /\ response' = [ NoResponse EXCEPT !.validated = validateOk ]
              /\ pending' = { r \in scope : Enumerated(r) }
    /\ UNCHANGED << config, scope, table, state, backups, probe, calc, tags >>

(* The next invocation of lambda_handler: validate_configuration raises on *)
(* a missing bucket, table or topic; describe_instances raising is caught  *)
(* by the outer except, which returns status 500; otherwise the loops run. *)
StartRun ==
    /\ scope = RunScope
    /\ response.statusCode # "none"
    /\ cycles < MaxRuns
    /\ cycles' = cycles + 1
    /\ \E delta \in Deltas : now' = now + delta
    /\ errors' = [ r \in Resources |-> 0 ]
    /\ last' = NoLast
    /\ processed' = {}
    /\ \E validateOk \in BOOLEAN, describeOk \in BOOLEAN :
         IF ~validateOk
         THEN /\ response' = [ statusCode |-> "raised", validated |-> FALSE,
                               counted |-> {}, errors |-> 0 ]
              /\ pending' = {}
         ELSE IF ~describeOk
         THEN /\ response' = [ statusCode |-> "500", validated |-> TRUE,
                               counted |-> {}, errors |-> 0 ]
              /\ pending' = {}
         ELSE /\ response' = NoResponse
              /\ pending' = { r \in scope : Enumerated(r) }
    /\ UNCHANGED << config, scope, table, state, backups, probe, calc, tags >>

(* The run is cut off (the Lambda time limit) between two loop iterations. *)
AbortRun ==
    /\ scope = RunScope
    /\ response.statusCode = "none"
    /\ pending # {}
    /\ response' = [ statusCode |-> "aborted", validated |-> TRUE, counted |-> {},
                     errors |-> 0 ]
    /\ pending' = {}
    /\ UNCHANGED << now, cycles, config, scope, table, state, backups, errors, last, probe,
                    processed, calc, tags >>

(* The run is cut off inside the DELETE branch of an instance, after       *)
(* terminate_instance returned True and before put_item (the branch sleeps *)
(* 5 seconds and deletes security groups in between).                      *)
AbortedTerminate(i) ==
    /\ scope = RunScope
    /\ i \in Instances
    /\ NextInLine(i)
    /\ state[i] # "terminated"
    /\ "s3" \in backups[i]
    /\ \E reading \in CpuReadings :
        LET history == get_resource_history(table[i], TRUE, now, HistoryDays)
            cpu_usage == IF state[i] = "running" THEN get_cpu_utilization(reading) ELSE 0
            d == determine_action(history, cpu_usage, now, config)
            seen == [ history |-> history, cpu |-> cpu_usage,
                      idle |-> cpu_usage < CPU_IDLE_THRESHOLD, error |-> FALSE ]
        IN  /\ d.action = "DELETE"
            /\ last' = Step(i, seen, d, << "list_objects_v2:found", "terminate_instance" >>)
    /\ state' = [ state EXCEPT ![i] = "shutting-down" ]
    /\ response' = [ statusCode |-> "aborted", validated |-> TRUE, counted |-> {},
                     errors |-> 0 ]
    /\ pending' = {}
    /\ UNCHANGED << now, cycles, config, scope, table, backups, errors, probe, processed, calc,
                    tags >>

InitRun ==
    /\ config = [ IDLE_CHECKS_BEFORE_ACTION |-> 1, SKIP_QUARANTINE |-> TRUE,
                  GRACE_PERIOD_DAYS |-> 0 ]
    /\ scope = RunScope
    /\ InitCommon
    /\ probe = NoProbe

NextRun ==
    \/ \E i \in Instances : NextInLine(i) /\ CheckInstance(i)
    \/ \E v \in Volumes : NextInLine(v) /\ CheckVolume(v)
    \/ \E i \in Instances : AbortedTerminate(i)
    \/ AbortRun
    \/ Return
    \/ StartRun

SpecRun == InitRun /\ [][NextRun]_vars

----------------------------------------------------------------------------
(* determine_action handed a history with a record that has no Timestamp   *)
(* (`entry.get('Timestamp')` gives None).                                  *)
ProbeAppendMalformed ==
    /\ scope = {}
    /\ probe.result.action = "NONE"
    /\ Len(probe.history) < MaxProbeLen
    /\ \E status \in { "IDLE_WARNING", "QUARANTINE" } :
        probe' = [ probe EXCEPT !.history =
                      Append(@, [ Status |-> status, Timestamp |-> None,
                                  IdleCount |-> None, QuarantineDate |-> None ]) ]
    /\ UNCHANGED << now, cycles, config, scope, pending, table, state, backups, errors, last,
                    response, processed, calc, tags >>

NextMalformed == ProbeAppend \/ ProbeAppendMalformed \/ ProbeCall

SpecMalformed == InitProbe /\ [][NextMalformed]_vars

----------------------------------------------------------------------------
(* pricing.py.  Money is counted in 1/10000 USD: an hourly rate times      *)
(* HOURS_PER_MONTH is then exact.                                          *)

HOURS_PER_MONTH == 730

Regions == { "us-east-1", "us-west-1" }

EmptyDict == [ k \in {} |-> 0 ]

(* dict.get(key, default) *)
Get(dict, key, default) == IF key \in DOMAIN dict THEN dict[key] ELSE default

AWS_PRICING ==
    ( "us-east-1" :>
        (    "EC2" :> (    "t2.nano" :> 58 @@ "t2.micro" :> 116 @@ "t2.small" :> 230
                        @@ "t2.medium" :> 464 @@ "t2.large" :> 928 @@ "t2.xlarge" :> 1856
                        @@ "t2.2xlarge" :> 3712
                        @@ "t3.nano" :> 52 @@ "t3.micro" :> 104 @@ "t3.small" :> 208
                        @@ "t3.medium" :> 416 @@ "t3.large" :> 832 @@ "t3.xlarge" :> 1664
                        @@ "t3.2xlarge" :> 3328
                        @@ "t4g.nano" :> 42 @@ "t4g.micro" :> 84 @@ "t4g.small" :> 168
                        @@ "t4g.medium" :> 336 @@ "t4g.large" :> 672
                        @@ "m5.large" :> 960 @@ "m5.xlarge" :> 1920 @@ "m5.2xlarge" :> 3840
                        @@ "m5.4xlarge" :> 7680
                        @@ "c5.large" :> 850 @@ "c5.xlarge" :> 1700 @@ "c5.2xlarge" :> 3400
                        @@ "r5.large" :> 1260 @@ "r5.xlarge" :> 2520 @@ "r5.2xlarge" :> 5040 )
          @@ "RDS" :> (    "db.t3.micro" :> 170 @@ "db.t3.small" :> 340
                        @@ "db.t3.medium" :> 680 @@ "db.t3.large" :> 1360
                        @@ "db.t3.xlarge" :> 2720 @@ "db.t3.2xlarge" :> 5440
                        @@ "db.t4g.micro" :> 160 @@ "db.t4g.small" :> 320
                        @@ "db.t4g.medium" :> 640 @@ "db.t4g.large" :> 1280
                        @@ "db.m5.large" :> 1920 @@ "db.m5.xlarge" :> 3840
                        @@ "db.m5.2xlarge" :> 7680
                        @@ "db.r5.large" :> 2400 @@ "db.r5.xlarge" :> 4800
                        @@ "db.r5.2xlarge" :> 9600 )
          @@ "NAT_GATEWAY" :> 450
          @@ "ALB" :> 225
          @@ "NLB" :> 225
          @@ "ELB" :> 250
          @@ "EBS" :> (    "gp3" :> 800 @@ "gp2" :> 1000 @@ "io1" :> 1250 @@ "io2" :> 1250
                        @@ "st1" :> 450 @@ "sc1" :> 150 )
          @@ "EIP" :> 50
          @@ "VPC_ENDPOINT" :> 100
          @@ "S3_BUCKET" :> 0
          @@ "VPC" :> 0
          @@ "SUBNET" :> 0 ) )

(* The resource types with one hourly rate, whatever the instance type *)
FixedRateTypes ==
    { "NAT_GATEWAY", "ALB", "NLB", "ELB", "EIP", "VPC_ENDPOINT", "S3_BUCKET", "VPC", "SUBNET" }

get_hourly_rate(resource_type, instance_type, region) ==
    LET region_pricing == Get(AWS_PRICING, region, EmptyDict) IN
    IF resource_type \in FixedRateTypes
    THEN Get(region_pricing, resource_type, 0)
    ELSE LET service_pricing == Get(region_pricing, resource_type, EmptyDict)
         IN  Get(service_pricing, instance_type, 0)

calculate_monthly_savings(resource_type, instance_type, region) ==
    get_hourly_rate(resource_type, instance_type, region) * HOURS_PER_MONTH

SERVICE_NAMES ==
    (    "EC2" :> "EC2 Instances" @@ "RDS" :> "RDS Databases"
      @@ "NAT_GATEWAY" :> "NAT Gateways" @@ "ALB" :> "Application Load Balancers"
      @@ "NLB" :> "Network Load Balancers" @@ "ELB" :> "Classic Load Balancers"
      @@ "EBS" :> "EBS Volumes" @@ "EIP" :> "Elastic IPs" @@ "VPC" :> "VPCs"
      @@ "VPC_ENDPOINT" :> "VPC Endpoints" @@ "S3" :> "S3 Buckets"
      @@ "S3_BUCKET" :> "S3 Buckets" @@ "SUBNET" :> "Subnets" )

(* round(x, 2) and the format `:.2f`: to the nearest cent.  No amount of    *)
(* the model lies halfway between two cents.                               *)
Round2(amount) == ((amount + 50) \div 100) * 100

----------------------------------------------------------------------------
(* cost_savings_calculator.py *)

(* The calendar of 1970 (UTC): the day of the year on which month m begins *)
MonthStartDay == << 0, 31, 59, 90, 120, 151, 181, 212, 243, 273, 304, 334, 365 >>

(* datetime.fromtimestamp(ts): the month, as << year, month >> *)
MonthOf(ts) ==
    LET day == ts \div SecondsPerDay
    IN  << 1970, CHOOSE m \in 1..12 : MonthStartDay[m] <= day /\ day < MonthStartDay[m + 1] >>

(* datetime(year, month, 1).timestamp(), for a month of 1970 *)
MonthStartTs(month) == MonthStartDay[month[2]] * SecondsPerDay

(* The first day of the month after `month` *)
MonthEndTs(month) == MonthStartDay[month[2] + 1] * SecondsPerDay

is_month_end(current_time) == MonthOf(current_time + SecondsPerDay) # MonthOf(current_time)

Absent == "absent"

(* 'ResourceType' of the items the monitor writes for resource r *)
ResourceType(r) ==
    IF r \in Instances THEN "EC2"
    ELSE IF r \in NatGateways THEN "NAT_GATEWAY"
    ELSE IF r \in DbInstances THEN "RDS"
    ELSE IF r \in ElasticIps THEN "ELASTIC_IP"
    ELSE IF r \in Buckets THEN "S3_BUCKET"
    ELSE IF r \in Volumes THEN "EBS_VOLUME"
    ELSE "LOAD_BALANCER"

(* The item of the table as the scan returns it.  An instance's items carry *)
(* InstanceType; a database's DELETED item and the STOPPED item written at  *)
(* the stop carry DBInstanceClass, the STOPPED items of the later checks    *)
(* (StoppedDate older than the item) do not; a volume's carry VolumeType.   *)
StoredItem(r, e) ==
    [ ResourceId |-> r, Timestamp |-> e.Timestamp, Status |-> e.Status,
      ResourceType |-> ResourceType(r),
      InstanceType |-> IF r \in Instances THEN "t2.micro" ELSE Absent,
      DBInstanceClass |-> IF /\ r \in DbInstances
                             /\ \/ e.Status = "DELETED"
                                \/ e.Status = "STOPPED" /\ e.QuarantineDate = e.Timestamp
                          THEN "db.t3.micro" ELSE Absent,
      VolumeType |-> IF r \in Volumes THEN "gp3" ELSE Absent ]

(* table.scan: the items of every resource, in the order the table yields  *)
(* the resources; the FilterExpression is applied to what was read.        *)
RECURSIVE Scan(_, _, _)
Scan(items, order, k) ==
    IF k > Len(order) THEN << >>
    ELSE LET r == order[k]
         IN  [ j \in 1..Len(items[r]) |-> StoredItem(r, items[r][j]) ]
               \o Scan(items, order, k + 1)

(* `savings_by_service[resource_type]` incremented, in insertion order *)
AddToService(by_service, resource_type, monthly_savings) ==
    IF \E j \in 1..Len(by_service) : by_service[j].service_code = resource_type
    THEN [ j \in 1..Len(by_service) |->
             IF by_service[j].service_code = resource_type
             THEN [ by_service[j] EXCEPT !.count = @ + 1, !.savings = @ + monthly_savings ]
             ELSE by_service[j] ]
    ELSE Append(by_service, [ service_code |-> resource_type, count |-> 1,
                              savings |-> monthly_savings ])

(* The instance type calculate_savings prices a scanned item with *)
PricedAs(resource) ==
    IF resource.ResourceType \in FixedRateTypes
    THEN resource.ResourceType
    ELSE IF resource.ResourceType = "EBS"
    THEN (IF resource.VolumeType # Absent THEN resource.VolumeType ELSE "gp3")
    ELSE IF resource.InstanceType # Absent THEN resource.InstanceType
    ELSE IF resource.DBInstanceClass # Absent THEN resource.DBInstanceClass
    ELSE "Unknown"

(* The loop `for resource in deleted_resources` of calculate_savings, from *)
(* item k on.                                                              *)
RECURSIVE Aggregate(_, _, _, _)
Aggregate(deleted_resources, k, region, acc) ==
    IF k > Len(deleted_resources) THEN acc
    ELSE LET resource == deleted_resources[k]
             instance_type == PricedAs(resource)
             monthly_savings == calculate_monthly_savings(resource.ResourceType,
                                                          instance_type, region)
         IN  IF monthly_savings > 0
             THEN Aggregate(deleted_resources, k + 1, region,
                    [ savings_by_service |->
                        AddToService(acc.savings_by_service, resource.ResourceType,
                                     monthly_savings),
                      detailed_resources |->
                        Append(acc.detailed_resources,
                               [ date |-> resource.Timestamp \div SecondsPerDay,
                                 resource_id |-> resource.ResourceId,
                                 resource_type |-> resource.ResourceType,
                                 instance_type |-> instance_type,
                                 monthly_savings |-> monthly_savings ]) ])
             ELSE Aggregate(deleted_resources, k + 1, region, acc)

RECURSIVE SumSavings(_, _)
SumSavings(rows, k) ==
    IF k > Len(rows) THEN 0 ELSE rows[k].savings + SumSavings(rows, k + 1)

calculate_savings(month, items, order, region, generated_at) ==
    LET month_start_ts == MonthStartTs(month)
        month_end_ts == MonthEndTs(month)
        InMonth(item) == /\ item.Status \in { "DELETED", "STOPPED" }
                         /\ month_start_ts <= item.Timestamp
                         /\ item.Timestamp <= month_end_ts
        deleted_resources == SelectSeq(Scan(items, order, 1), InMonth)
        acc == Aggregate(deleted_resources, 1, region,
                         [ savings_by_service |-> << >>, detailed_resources |-> << >> ])
    IN  [ month |-> month,
          total_savings |-> SumSavings(acc.savings_by_service, 1),
          total_resources |-> Len(acc.detailed_resources),
          savings_by_service |-> acc.savings_by_service,
          detailed_resources |-> acc.detailed_resources,
          generated_at |-> generated_at ]

(* calculate_cumulative_savings: every DELETED or STOPPED item, priced by  *)
(* its InstanceType alone; 0.0 when the scan raises.                       *)
RECURSIVE SumCumulative(_, _, _)
SumCumulative(found, k, region) ==
    IF k > Len(found) THEN 0
    ELSE LET instance_type == IF found[k].InstanceType # Absent
                              THEN found[k].InstanceType ELSE "Unknown"
         IN  calculate_monthly_savings(found[k].ResourceType, instance_type, region)
               + SumCumulative(found, k + 1, region)

calculate_cumulative_savings(items, order, region, scanOk) ==
    LET Matches(item) == item.Status \in { "DELETED", "STOPPED" }
    IN  IF scanOk
        THEN SumCumulative(SelectSeq(Scan(items, order, 1), Matches), 1, region)
        ELSE 0

(* get_archived_month_savings: the total of the archived JSON report, 0.0  *)
(* when the object cannot be read.                                         *)
get_archived_month_savings(month, reports, readOk) ==
    IF readOk /\ month \in DOMAIN reports THEN reports[month].total_savings ELSE 0

(* `while target_month <= 0: target_month += 12; target_year -= 1` *)
RECURSIVE RollOver(_, _)
RollOver(target_year, target_month) ==
    IF target_month <= 0 THEN RollOver(target_year - 1, target_month + 12)
    ELSE << target_year, target_month >>

(* A roll-over of one year at most: `if` for `while`. *)
TargetMonth_SingleRollOver(current, i) ==
    LET target_month == current[2] - i
    IN  IF target_month <= 0 THEN << current[1] - 1, target_month + 12 >>
        ELSE << current[1], target_month >>

(* The month i months before `current` *)
TargetMonth(current, i) == RollOver(current[1], current[2] - i)

get_historical_data(months, current_time, reports, readOk, items, order, region) ==
    [ j \in 1..months |->
        LET month_str == TargetMonth(MonthOf(current_time), months - j + 1)
            total == IF month_str = MonthOf(current_time)
                     THEN calculate_savings(month_str, items, order, region, 0).total_savings
                     ELSE get_archived_month_savings(month_str, reports, readOk)
        IN  [ month |-> month_str, savings |-> Round2(total) ] ]

(* The list left in insertion order. *)
SortBySavings_Unsorted(list) == list

(* list.sort(key=savings, reverse=True): highest first, and stable: items  *)
(* with equal savings keep their order.                                    *)
SortBySavings(list) ==
    LET Before(j) == { k \in 1..Len(list) :
                         \/ list[k].savings > list[j].savings
                         \/ list[k].savings = list[j].savings /\ k < j }
    IN  [ p \in 1..Len(list) |->
            list[CHOOSE j \in 1..Len(list) : Cardinality(Before(j)) = p - 1] ]

generate_dashboard_data(savings_data, historical_data, cumulative_savings, last_updated) ==
    LET by_service == savings_data.savings_by_service
        formatted == [ j \in 1..Len(by_service) |->
                         [ service |-> Get(SERVICE_NAMES, by_service[j].service_code,
                                           by_service[j].service_code),
                           service_code |-> by_service[j].service_code,
                           count |-> by_service[j].count,
                           savings |-> Round2(by_service[j].savings) ] ]
        sorted == SortBySavings(formatted)
    IN  [ current_month |-> [ month |-> savings_data.month,
                              total_savings |-> Round2(savings_data.total_savings),
                              total_resources |-> savings_data.total_resources,
                              savings_by_service |-> sorted ],
          breakdown |-> [ j \in 1..Len(sorted) |->
                            [ name |-> sorted[j].service, value |-> sorted[j].savings ] ],
          historical |-> historical_data,
          cumulative_savings |-> Round2(cumulative_savings),
          resources_detail |-> savings_data.detailed_resources,
          last_updated |-> last_updated ]

(* A report whose last row counts the services instead of the rows. *)
generate_csv_report_CountsServices(savings_data) ==
    LET detailed == savings_data.detailed_resources
    IN  << << "Date", "Resource ID", "Resource Type", "Instance Type", "Monthly Savings" >> >>
          \o [ j \in 1..Len(detailed) |->
                 << detailed[j].date, detailed[j].resource_id, detailed[j].resource_type,
                    detailed[j].instance_type, Round2(detailed[j].monthly_savings) >> ]
          \o << << >>,
                << "Total Savings", "", "", Round2(savings_data.total_savings) >>,
                << "Total Resources", "", "", Len(savings_data.savings_by_service) >> >>

(* generate_csv_report: the lines of the report, each a tuple of its        *)
(* comma-separated fields; amounts are printed with two decimals.          *)
generate_csv_report(savings_data) ==
    LET detailed == savings_data.detailed_resources
    IN  << << "Date", "Resource ID", "Resource Type", "Instance Type", "Monthly Savings" >> >>
          \o [ j \in 1..Len(detailed) |->
                 << detailed[j].date, detailed[j].resource_id, detailed[j].resource_type,
                    detailed[j].instance_type, Round2(detailed[j].monthly_savings) >> ]
          \o << << >>,
                << "Total Savings", "", "", Round2(savings_data.total_savings) >>,
                << "Total Resources", "", "", savings_data.total_resources >> >>

(* A calculator that adds the month's savings to its previous result. *)
CalculatorRun_DoubleCounting ==
    /\ calc.region # "none"
    /\ calc.runs < MaxCalcRuns
    /\ LET current_month == MonthOf(now)
           savings_data == calculate_savings(current_month, table, calc.order, calc.region,
                                             calc.runs + 1)
           before == IF calc.runs = 0 THEN 0 ELSE calc.savings_data.total_savings
       IN  calc' = [ calc EXCEPT
                !.runs = @ + 1,
                !.statusCode = "200",
                !.savings_data = [ savings_data EXCEPT !.total_savings = @ + before ],
                !.scanned = [ items |-> table, month |-> current_month ],
                !.rerun = (calc.scanned = [ items |-> table, month |-> current_month ]) ]
    /\ UNCHANGED << now, cycles, config, scope, pending, table, state, backups, errors, last,
                    probe, response, processed, tags >>

(* lambda_handler of the calculator: calculate_savings for the current     *)
(* month, generate_dashboard_data, upload_dashboard_data, and on the last  *)
(* day of the month archive_monthly_report.  An exception of the scan or   *)
(* of the upload ends the run with status 500; archive_monthly_report      *)
(* catches its own.                                                        *)
CalculatorRun ==
    /\ calc.region # "none"
    /\ calc.runs < MaxCalcRuns
    /\ \E scanOk \in BOOLEAN, cumulativeOk \in BOOLEAN, uploadOk \in BOOLEAN,
          readOk \in (IF DOMAIN calc.reports = {} THEN { TRUE } ELSE BOOLEAN),
          jsonOk \in (IF is_month_end(now) THEN BOOLEAN ELSE { TRUE }),
          csvOk \in (IF is_month_end(now) THEN BOOLEAN ELSE { TRUE }) :
        LET current_month == MonthOf(now)
            savings_data == calculate_savings(current_month, table, calc.order, calc.region,
                                              calc.runs + 1)
            historical_data == get_historical_data(6, now, calc.reports, readOk, table,
                                                   calc.order, calc.region)
            cumulative == calculate_cumulative_savings(table, calc.order, calc.region,
                                                       cumulativeOk)
            dashboard_data == generate_dashboard_data(savings_data, historical_data,
                                                      cumulative, calc.runs + 1)
            archived == is_month_end(now) /\ jsonOk
        IN  IF ~scanOk \/ ~uploadOk
            THEN calc' = [ calc EXCEPT !.runs = @ + 1, !.statusCode = "500" ]
            ELSE calc' = [ calc EXCEPT
                    !.runs = @ + 1,
                    !.statusCode = "200",
                    !.savings_data = savings_data,
                    !.dashboard = dashboard_data,
                    !.reports = IF archived THEN (current_month :> savings_data) @@ @ ELSE @,
                    !.csv = IF archived /\ csvOk
                            THEN (current_month :> generate_csv_report(savings_data)) @@ @
                            ELSE @,
                    !.scanned = [ items |-> table, month |-> current_month ],
                    !.rerun = (calc.scanned = [ items |-> table, month |-> current_month ]),
                    !.cumulativeOk = cumulativeOk,
                    !.csvWritten = (archived /\ csvOk) ]
    /\ UNCHANGED << now, cycles, config, scope, pending, table, state, backups, errors, last,
                    probe, response, processed, tags >>

----------------------------------------------------------------------------
(* The calculator next to the monitor: the monitor writes its records, the *)
(* days pass, the calculator runs.                                         *)

SavingsScope == { "i-001", "db-001", "eipalloc-001" }

SavingsDeltas == { Day, 9 * Day }

(* Two of the orders in which a scan can yield the resources of the table *)
ScanOrders ==
    { << "i-001", "db-001", "eipalloc-001" >>, << "db-001", "eipalloc-001", "i-001" >> }

(* The first day of the savings scenarios: 1970-02-19; 9 days later the    *)
(* month ends.                                                             *)
SavingsStart == 49 * Day

(* The records a monitoring cycle leaves for resource r (lambda_handler.py):*)
(* DELETED for an instance, RELEASED for an address, and for a database    *)
(* STOPPED at the stop, STOPPED at each later check of the grace   *)
(* period, DELETED once the stop is 7 days old.  The address is released   *)
(* on the first day of the scenario or not at all.  DELETED for a NAT      *)
(* gateway, a volume and a load balancer.                                  *)
MonitorWrites(r) ==
    /\ r \in scope
    /\ calc.region # "none"
    /\ IF table[r] = << >> THEN TRUE ELSE table[r][Len(table[r])].Timestamp < now
    /\ \E status \in { "DELETED", "STOPPED", "RELEASED" } :
        LET stopped_date == StoppedDate(table[r], Len(table[r]))
            grace_over == now - stopped_date >= RdsGraceDays * SecondsPerDay
        IN  /\ \/ /\ r \in Instances /\ state[r] = "running"
                  /\ status = "DELETED"
               \/ /\ r \in ElasticIps /\ state[r] = "unattached"
                  /\ now = SavingsStart
                  /\ status = "RELEASED"
               \/ /\ r \in DbInstances /\ state[r] = "available"
                  /\ status = "STOPPED"
               \/ /\ r \in DbInstances /\ state[r] = "stopped"
                  /\ status = IF grace_over THEN "DELETED" ELSE "STOPPED"
               \/ /\ r \in NatGateways \cup Volumes \cup LoadBalancers
                  /\ state[r] \in { "available", "active" }
                  /\ status = "DELETED"
            /\ table' = [ table EXCEPT ![r] =
                  put_item(@, Item(status, None,
                                   IF status # "STOPPED" THEN None
                                   ELSE IF state[r] = "available" THEN now
                                   ELSE stopped_date)) ]
            /\ state' = [ state EXCEPT ![r] =
                  IF status = "RELEASED" THEN "released"
                  ELSE IF status = "STOPPED" THEN "stopped"
                  ELSE IF r \in Instances THEN "shutting-down"
                  ELSE "deleting" ]
    /\ UNCHANGED << now, cycles, config, scope, pending, backups, errors, last, probe,
                    response, processed, calc, tags >>

(* A day passes, or the nine days from the first day of the scenario to   *)
(* the month's end.                                                        *)
DaysPass ==
    /\ calc.region # "none"
    /\ cycles < MaxSavingsSteps
    /\ cycles' = cycles + 1
    /\ \E delta \in SavingsDeltas :
          /\ delta # Day => now = SavingsStart
          /\ now' = now + delta
    /\ UNCHANGED << config, scope, pending, table, state, backups, errors, last, probe,
                    response, processed, calc, tags >>

InitSavings ==
    /\ config = [ IDLE_CHECKS_BEFORE_ACTION |-> 1, SKIP_QUARANTINE |-> TRUE,
                  GRACE_PERIOD_DAYS |-> 0 ]
    /\ scope = SavingsScope
    /\ now = SavingsStart
    /\ cycles = 1
    /\ pending = {}
    /\ table = [ r \in Resources |-> << >> ]
    /\ state = [ r \in Resources |->
                   IF r \in Instances THEN "running"
                   ELSE IF r \in ElasticIps THEN "unattached"
                   ELSE "available" ]
    /\ backups = [ r \in Resources |-> {} ]
    /\ errors = [ r \in Resources |-> 0 ]
    /\ last = NoLast
    /\ probe = NoProbe
    /\ response = NoResponse
    /\ processed = {}
    /\ \E region \in Regions, order \in ScanOrders :
          calc = [ NoCalc EXCEPT !.region = region, !.order = order ]
    /\ tags = NoTags

NextSavings ==
    \/ \E r \in SavingsScope : MonitorWrites(r)
    \/ DaysPass
    \/ CalculatorRun

SpecSavings == InitSavings /\ [][NextSavings]_vars

(* The same with a NAT gateway, a volume and a load balancer in the        *)
(* account.                                                                *)
DeletedScope == { "nat-001", "vol-001", "lb-001" }

DeletedScanOrders ==
    { << "nat-001", "vol-001", "lb-001" >>, << "lb-001", "nat-001", "vol-001" >> }

InitDeleted ==
    /\ config = [ IDLE_CHECKS_BEFORE_ACTION |-> 1, SKIP_QUARANTINE |-> TRUE,
                  GRACE_PERIOD_DAYS |-> 0 ]
    /\ scope = DeletedScope
    /\ now = SavingsStart
    /\ cycles = 1
    /\ pending = {}
    /\ table = [ r \in Resources |-> << >> ]
    /\ state = [ r \in Resources |->
                   IF r \in Instances THEN "running"
                   ELSE IF r \in ElasticIps THEN "unattached"
                   ELSE IF r \in LoadBalancers THEN "active"
                   ELSE "available" ]
    /\ backups = [ r \in Resources |-> {} ]
    /\ errors = [ r \in Resources |-> 0 ]
    /\ last = NoLast
    /\ probe = NoProbe
    /\ response = NoResponse
    /\ processed = {}
    /\ \E region \in Regions, order \in DeletedScanOrders :
          calc = [ NoCalc EXCEPT !.region = region, !.order = order ]
    /\ tags = NoTags

NextDeleted ==
    \/ \E r \in DeletedScope : MonitorWrites(r)
    \/ DaysPass
    \/ CalculatorRun

SpecDeleted == InitDeleted /\ [][NextDeleted]_vars

----------------------------------------------------------------------------
(* The cost estimates of the monitor (get_instance_cost, get_rds_cost) and *)
(* of pricing.py, called directly.  A class name is the sequence of its     *)
(* characters, `'large' in instance_type` is a search for a subsequence;    *)
(* the estimates are in cents per month.                                    *)

Contains(name, part) ==
    \E i \in 1..(Len(name) - Len(part) + 1) : SubSeq(name, i, i + Len(part) - 1) = part

Size_nano == << "n", "a", "n", "o" >>
Size_micro == << "m", "i", "c", "r", "o" >>
Size_small == << "s", "m", "a", "l", "l" >>
Size_medium == << "m", "e", "d", "i", "u", "m" >>
Size_large == << "l", "a", "r", "g", "e" >>
Size_xlarge == << "x", "l", "a", "r", "g", "e" >>
Size_2xlarge == << "2", "x", "l", "a", "r", "g", "e" >>
Size_4xlarge == << "4", "x", "l", "a", "r", "g", "e" >>
Size_metal == << "m", "e", "t", "a", "l" >>
TwoX == << "2", "x" >>

Sizes ==
    { Size_nano, Size_micro, Size_small, Size_medium, Size_large, Size_xlarge, Size_2xlarge,
      Size_4xlarge, Size_metal }

InstanceClass(family, size) == family \o << "." >> \o size

DbClass(family, size) == << "d", "b", "." >> \o family \o << "." >> \o size

(* The instance families of the calls: t2 and m5 are in the tables, the    *)
(* others are not.                                                         *)
Families == { << "t", "2" >>, << "m", "5" >>, << "m", "6", "i" >>, << "c", "7", "g" >>, << "x", "2", "g", "d" >> }

(* `pricing` of get_instance_cost *)
InstancePricing ==
    (    InstanceClass(<< "t", "2" >>, Size_nano) :> 425
      @@ InstanceClass(<< "t", "2" >>, Size_micro) :> 850
      @@ InstanceClass(<< "t", "2" >>, Size_small) :> 1700
      @@ InstanceClass(<< "t", "2" >>, Size_medium) :> 3387
      @@ InstanceClass(<< "t", "2" >>, Size_large) :> 6774
      @@ InstanceClass(<< "t", "2" >>, Size_xlarge) :> 13548
      @@ InstanceClass(<< "t", "2" >>, Size_2xlarge) :> 27096
      @@ InstanceClass(<< "t", "3" >>, Size_nano) :> 380
      @@ InstanceClass(<< "t", "3" >>, Size_micro) :> 759
      @@ InstanceClass(<< "t", "3" >>, Size_small) :> 1518
      @@ InstanceClass(<< "t", "3" >>, Size_medium) :> 3037
      @@ InstanceClass(<< "t", "3" >>, Size_large) :> 6074
      @@ InstanceClass(<< "t", "3" >>, Size_xlarge) :> 12147
      @@ InstanceClass(<< "t", "3" >>, Size_2xlarge) :> 24294
      @@ InstanceClass(<< "m", "5" >>, Size_large) :> 6935
      @@ InstanceClass(<< "m", "5" >>, Size_xlarge) :> 13870
      @@ InstanceClass(<< "m", "5" >>, Size_2xlarge) :> 27740
      @@ InstanceClass(<< "m", "5" >>, Size_4xlarge) :> 55480
      @@ InstanceClass(<< "c", "5" >>, Size_large) :> 6132
      @@ InstanceClass(<< "c", "5" >>, Size_xlarge) :> 12263
      @@ InstanceClass(<< "c", "5" >>, Size_2xlarge) :> 24526
      @@ InstanceClass(<< "r", "5" >>, Size_large) :> 9040
      @@ InstanceClass(<< "r", "5" >>, Size_xlarge) :> 18079
      @@ InstanceClass(<< "r", "5" >>, Size_2xlarge) :> 36158 )

(* `pricing` of get_rds_cost *)
RdsPricing ==
    (    DbClass(<< "t", "3" >>, Size_micro) :> 1461
      @@ DbClass(<< "t", "3" >>, Size_small) :> 2922
      @@ DbClass(<< "t", "3" >>, Size_medium) :> 5843
      @@ DbClass(<< "t", "3" >>, Size_large) :> 11686
      @@ DbClass(<< "t", "3" >>, Size_xlarge) :> 23371
      @@ DbClass(<< "t", "3" >>, Size_2xlarge) :> 46742
      @@ DbClass(<< "t", "4", "g" >>, Size_micro) :> 1314
      @@ DbClass(<< "t", "4", "g" >>, Size_small) :> 2628
      @@ DbClass(<< "t", "4", "g" >>, Size_medium) :> 5256
      @@ DbClass(<< "t", "4", "g" >>, Size_large) :> 10512
      @@ DbClass(<< "m", "5" >>, Size_large) :> 14016
      @@ DbClass(<< "m", "5" >>, Size_xlarge) :> 28032
      @@ DbClass(<< "m", "5" >>, Size_2xlarge) :> 56064
      @@ DbClass(<< "m", "5" >>, Size_4xlarge) :> 112128
      @@ DbClass(<< "r", "5" >>, Size_large) :> 18250
      @@ DbClass(<< "r", "5" >>, Size_xlarge) :> 36500
      @@ DbClass(<< "r", "5" >>, Size_2xlarge) :> 73000
      @@ DbClass(<< "r", "5" >>, Size_4xlarge) :> 146000 )

get_instance_cost(instance_type) ==
    LET estimated_cost == Get(InstancePricing, instance_type, 0) IN
    IF estimated_cost # 0 THEN estimated_cost
    ELSE IF Contains(instance_type, Size_nano) THEN 500
    ELSE IF Contains(instance_type, Size_micro) THEN 1000
    ELSE IF Contains(instance_type, Size_small) THEN 2000
    ELSE IF Contains(instance_type, Size_medium) THEN 3500
    ELSE IF Contains(instance_type, Size_large) THEN 7000
    ELSE IF Contains(instance_type, Size_xlarge) /\ ~Contains(instance_type, TwoX) THEN 14000
    ELSE 20000

get_rds_cost(db_instance_class) ==
    LET estimated_cost == Get(RdsPricing, db_instance_class, 0) IN
    IF estimated_cost # 0 THEN estimated_cost
    ELSE IF Contains(db_instance_class, Size_micro) THEN 1500
    ELSE IF Contains(db_instance_class, Size_small) THEN 3000
    ELSE IF Contains(db_instance_class, Size_medium) THEN 6000
    ELSE IF Contains(db_instance_class, Size_large)
            /\ ~Contains(db_instance_class, Size_xlarge) THEN 15000
    ELSE IF Contains(db_instance_class, Size_xlarge)
            /\ ~Contains(db_instance_class, TwoX) THEN 30000
    ELSE 50000

(* Instance types handed to get_hourly_rate: in the table of their         *)
(* resource type, or not.                                                  *)
RateClasses ==
    { "t2.micro", "m6i.xlarge", "c7g.large", "db.t3.micro", "db.m6g.xlarge", "db.x2g.large" }

NoCall == [ fn |-> "none", arg |-> << >>, result |-> 0 ]

CallInstanceCost ==
    /\ scope = {}
    /\ probe.fn \in { "none", "get_instance_cost", "get_rds_cost", "get_hourly_rate" }
    /\ \E family \in Families, size \in Sizes :
          probe' = [ fn |-> "get_instance_cost", arg |-> InstanceClass(family, size),
                     result |-> get_instance_cost(InstanceClass(family, size)) ]
    /\ UNCHANGED << now, cycles, config, scope, pending, table, state, backups, errors, last,
                    response, processed, calc, tags >>

CallRdsCost ==
    /\ scope = {}
    /\ probe.fn \in { "none", "get_instance_cost", "get_rds_cost", "get_hourly_rate" }
    /\ \E family \in Families, size \in Sizes :
          probe' = [ fn |-> "get_rds_cost", arg |-> DbClass(family, size),
                     result |-> get_rds_cost(DbClass(family, size)) ]
    /\ UNCHANGED << now, cycles, config, scope, pending, table, state, backups, errors, last,
                    response, processed, calc, tags >>

CallHourlyRate ==
    /\ scope = {}
    /\ probe.fn \in { "none", "get_instance_cost", "get_rds_cost", "get_hourly_rate" }
    /\ \E resource_type \in { "EC2", "RDS" }, instance_type \in RateClasses,
          region \in Regions :
          probe' = [ fn |-> "get_hourly_rate",
                     arg |-> << resource_type, instance_type, region >>,
                     result |-> get_hourly_rate(resource_type, instance_type, region) ]
    /\ UNCHANGED << now, cycles, config, scope, pending, table, state, backups, errors, last,
                    response, processed, calc, tags >>

InitPricing ==
    /\ config = [ IDLE_CHECKS_BEFORE_ACTION |-> 1, SKIP_QUARANTINE |-> TRUE,
                  GRACE_PERIOD_DAYS |-> 0 ]
    /\ scope = {}
    /\ InitCommon
    /\ probe = NoCall

NextPricing == CallInstanceCost \/ CallRdsCost \/ CallHourlyRate

SpecPricing == InitPricing /\ [][NextPricing]_vars

----------------------------------------------------------------------------
(* get_historical_data called directly, on the first or the last day of a  *)
(* month, with an archive that holds one month's report or none.           *)

MaxHistoryMonths == 13

HistoricalDates ==
    { MonthStartDay[m] * Day : m \in 1..12 } \cup { (MonthStartDay[m + 1] - 1) * Day : m \in 1..12 }

Archives == { [ k \in {} |-> 0 ], (<< 1969, 12 >> :> [ total_savings |-> 84680 ]) }

CallHistoricalData ==
    /\ scope = {}
    /\ probe.fn \in { "none", "get_historical_data" }
    /\ \E months \in 1..MaxHistoryMonths,
          readOk \in (IF DOMAIN calc.reports = {} THEN { TRUE } ELSE BOOLEAN) :
          probe' = [ fn |-> "get_historical_data", arg |-> << months, now >>,
                     result |-> get_historical_data(months, now, calc.reports, readOk, table,
                                                    calc.order, calc.region) ]
    /\ UNCHANGED << now, cycles, config, scope, pending, table, state, backups, errors, last,
                    response, processed, calc, tags >>

(* datetime.now() of a later call: the next of the dates *)
DateChanges ==
    /\ scope = {}
    /\ probe.fn \in { "none", "get_historical_data" }
    /\ \E date \in HistoricalDates :
          /\ date > now
          /\ \A other \in HistoricalDates : other > now => date <= other
          /\ now' = date
    /\ probe' = NoCall
    /\ UNCHANGED << cycles, config, scope, pending, table, state, backups, errors, last,
                    response, processed, calc, tags >>

InitHistorical ==
    /\ config = [ IDLE_CHECKS_BEFORE_ACTION |-> 1, SKIP_QUARANTINE |-> TRUE,
                  GRACE_PERIOD_DAYS |-> 0 ]
    /\ scope = {}
    /\ now \in HistoricalDates
    /\ cycles = 1
    /\ pending = {}
    /\ table = [ r \in Resources |-> << >> ]
    /\ state = [ r \in Resources |-> "available" ]
    /\ backups = [ r \in Resources |-> {} ]
    /\ errors = [ r \in Resources |-> 0 ]
    /\ last = NoLast
    /\ response = NoResponse
    /\ processed = {}
    /\ \E region \in Regions, reports \in Archives :
          calc = [ NoCalc EXCEPT !.region = region, !.reports = reports ]
    /\ tags = NoTags
    /\ probe = NoCall

NextHistorical == CallHistoricalData \/ DateChanges

SpecHistorical == InitHistorical /\ [][NextHistorical]_vars

----------------------------------------------------------------------------
(* The VPC cleanup loop: a VPC that holds an instance or holds nothing.     *)

VpcScope == { "vpc-001" }

(* is_vpc_empty: every describe_* call it counts with sits in its own try;  *)
(* one that raises is printed and adds nothing to the count.  Only when the *)
(* function itself raises does it answer (False, -1, {}).                   *)
is_vpc_empty(holds, describeOk, checkOk) ==
    checkOk /\ (~holds \/ ~describeOk)

(* lambda_handler, one iteration of `for vpc in vpcs`.  AWS refuses to      *)
(* delete a VPC that still holds an instance.                               *)
CheckVpc(v) ==
    /\ v \in pending
    /\ v \in Vpcs
    /\ state[v] \in { "in-use", "empty" }
    /\ \E describeOk \in BOOLEAN, checkOk \in BOOLEAN, queryOk \in BOOLEAN,
          backup_success \in BOOLEAN, deleted \in BOOLEAN, putOk \in BOOLEAN :
        LET holds == state[v] = "in-use"
            is_empty == is_vpc_empty(holds, describeOk, checkOk)
            history == get_resource_history(table[v], queryOk, now, HistoryDays)
            empty_count == CountConsecutive(history, Len(history),
                                            { "EMPTY", "EMPTY_WARNING" }, { "ACTIVE" })
            seen == [ history |-> history, cpu |-> 0, idle |-> is_empty,
                      error |-> (~checkOk \/ (holds /\ ~describeOk)) ]
            captured == IF backup_success THEN { "s3" } ELSE {}
            delete_success == deleted /\ ~holds
        IN  IF ~is_empty
            THEN Finish(v, seen, Decision("ACTIVE", empty_count, None),
                        << "put_item:ACTIVE" >>,
                        IF putOk THEN put_item(table[v], Item("ACTIVE", None, None))
                        ELSE table[v],
                        state[v], backups[v], ~putOk)
            ELSE IF empty_count < VPC_IDLE_CHECKS
            THEN Finish(v, seen, Decision("WARN", empty_count, None),
                        << "backup_vpc_config", "put_item:EMPTY_WARNING" >>
                          \o (IF putOk /\ empty_count = 0
                              THEN << "send_vpc_alert" >> ELSE << >>),
                        IF putOk
                        THEN put_item(table[v], Item("EMPTY_WARNING", empty_count + 1, None))
                        ELSE table[v],
                        state[v], backups[v] \cup captured, ~putOk)
            ELSE Finish(v, seen, Decision("DELETE", empty_count, None),
                        << "backup_vpc_config", "delete_vpc" >>
                          \o (IF delete_success THEN << "put_item:DELETED" >> ELSE << >>)
                          \o (IF delete_success /\ putOk
                              THEN << "send_vpc_alert" >> ELSE << >>),
                        IF delete_success /\ putOk
                        THEN put_item(table[v], Item("DELETED", None, None))
                        ELSE table[v],
                        IF delete_success THEN "deleting" ELSE state[v],
                        backups[v] \cup captured,
                        ~delete_success \/ ~putOk)

(* An instance is launched into the VPC, or its last one is terminated. *)
VpcChanges(v) ==
    /\ v \in Vpcs \cap scope
    /\ state[v] \in { "in-use", "empty" }
    /\ state' = [ state EXCEPT ![v] = IF @ = "in-use" THEN "empty" ELSE "in-use" ]
    /\ UNCHANGED << now, cycles, config, scope, pending, table, backups, errors, last, probe,
                    response, processed, calc, tags >>

InitVPC ==
    /\ config = [ IDLE_CHECKS_BEFORE_ACTION |-> 1, SKIP_QUARANTINE |-> TRUE,
                  GRACE_PERIOD_DAYS |-> 0 ]
    /\ scope = VpcScope
    /\ now = StartTime
    /\ cycles = 1
    /\ pending = scope
    /\ table = [ r \in Resources |-> << >> ]
    /\ state = [ r \in Resources |->
                   IF r \in Instances THEN "running"
                   ELSE IF r \in LoadBalancers THEN "active"
                   ELSE IF r \in ElasticIps THEN "unattached"
                   ELSE IF r \in Buckets THEN "empty"
                   ELSE IF r \in Vpcs THEN "in-use"
                   ELSE "available" ]
    /\ backups = [ r \in Resources |-> {} ]
    /\ errors = [ r \in Resources |-> 0 ]
    /\ last = NoLast
    /\ probe = NoProbe
    /\ response = NoResponse
    /\ processed = {}
    /\ calc = NoCalc
    /\ tags = NoTags

NextVPC ==
    \/ \E v \in Vpcs : CheckVpc(v)
    \/ \E v \in Vpcs : VpcChanges(v)
    \/ NextCycle

SpecVPC == InitVPC /\ [][NextVPC]_vars

----------------------------------------------------------------------------
(* Protection tags: a NAT gateway and the Elastic IP it holds, each with    *)
(* or without the tag CostGuardian=Ignore.                                  *)

TaggedScope == { "nat-001", "eipalloc-001" }

(* `tags.get('CostGuardian') == 'Ignore'` *)
Protected(r) == tags[r] = "Ignore"

(* delete_nat_gateway: addresses[0].AllocationId of the gateway *)
AllocationOf(n) == "eipalloc-001"

(* lambda_handler, the `else` branch of the NAT gateway loop with            *)
(* delete_nat_gateway(nat_gw_id, release_eip=True) written out: once the    *)
(* gateway is deleted its address is released; a failing release is only    *)
(* printed and leaves the address unattached.                               *)
NatDeleteAndRelease(n, seen, idle_count) ==
    \E backup_success \in BOOLEAN, delete_success \in BOOLEAN, release_success \in BOOLEAN,
       putOk \in BOOLEAN :
        LET allocation_id == AllocationOf(n)
            eip_released == delete_success /\ release_success
        IN  /\ last' = Step(n, seen, Decision("DELETE", idle_count, None),
                            << "backup_nat_gateway_config", "delete_nat_gateway" >>
                              \o (IF delete_success THEN << "release_address" >> ELSE << >>)
                              \o (IF delete_success THEN << "put_item:DELETED" >> ELSE << >>)
                              \o (IF delete_success /\ putOk
                                  THEN << "send_alert" >> ELSE << >>))
            /\ table' = [ table EXCEPT ![n] =
                            IF delete_success /\ putOk
                            THEN put_item(@, Item("DELETED", None, None))
                            ELSE @ ]
            /\ state' = [ state EXCEPT
                            ![n] = IF delete_success THEN "deleting" ELSE @,
                            ![allocation_id] = IF eip_released THEN "released"
                                               ELSE IF delete_success THEN "unattached"
                                               ELSE @ ]
            /\ backups' = [ backups EXCEPT ![n] = IF backup_success THEN @ \cup { "s3" }
                                                  ELSE @ ]
            /\ errors' = [ errors EXCEPT ![n] = IF ~delete_success \/ ~putOk THEN @ + 1
                                                ELSE @ ]
            /\ pending' = { r \in pending \ { n } :
                              r = allocation_id => ~eip_released }
            /\ processed' = processed \cup { n }
            /\ UNCHANGED << now, cycles, config, scope, probe, response, calc, tags >>

(* lambda_handler, one iteration of `for nat_gw in nat_gateways`, from the  *)
(* tag check on.                                                            *)
CheckTaggedNatGateway(n) ==
    /\ NextInLine(n)
    /\ n \in NatGateways
    /\ IF Protected(n)
       THEN Skip(n)
       ELSE \E usage \in { "idle", "active", "error" }, queryOk \in BOOLEAN :
              LET history == get_resource_history(table[n], queryOk, now, HistoryDays)
                  idle_count == CountConsecutive(history, Len(history),
                                                 { "IDLE", "IDLE_WARNING" }, { "ACTIVE" })
                  seen == [ history |-> history, cpu |-> 0, idle |-> (usage = "idle"),
                            error |-> (usage = "error") ]
              IN  IF seen.idle /\ idle_count >= NatIdleChecks
                  THEN NatDeleteAndRelease(n, seen, idle_count)
                  ELSE IdleLifecycle(n, seen, idle_count, NatIdleChecks,
                                     "backup_nat_gateway_config", "delete_nat_gateway")

(* lambda_handler, one iteration of `for eip in elastic_ips`, from the tag  *)
(* check on.                                                                *)
CheckTaggedElasticIp(e) ==
    /\ NextInLine(e)
    /\ e \in ElasticIps
    /\ IF Protected(e) THEN Skip(e) ELSE CheckElasticIp(e)

InitTagged ==
    /\ config = [ IDLE_CHECKS_BEFORE_ACTION |-> 1, SKIP_QUARANTINE |-> TRUE,
                  GRACE_PERIOD_DAYS |-> 0 ]
    /\ scope = TaggedScope
    /\ now = StartTime
    /\ cycles = 1
    /\ pending = scope
    /\ table = [ r \in Resources |-> << >> ]
    /\ state = [ r \in Resources |->
                   IF r \in Instances THEN "running"
                   ELSE IF r \in LoadBalancers THEN "active"
                   ELSE IF r \in ElasticIps THEN "attached"
                   ELSE IF r \in Buckets THEN "empty"
                   ELSE "available" ]
    /\ backups = [ r \in Resources |-> {} ]
    /\ errors = [ r \in Resources |-> 0 ]
    /\ last = NoLast
    /\ probe = NoProbe
    /\ response = NoResponse
    /\ processed = {}
    /\ calc = NoCalc
    /\ tags \in { t \in [ Resources -> { "none", "Ignore" } ] :
                    \A r \in Resources \ TaggedScope : t[r] = "none" }

NextTagged ==
    \/ \E n \in NatGateways : CheckTaggedNatGateway(n)
    \/ \E e \in ElasticIps : CheckTaggedElasticIp(e)
    \/ NextCycle

SpecTagged == InitTagged /\ [][NextTagged]_vars

----------------------------------------------------------------------------
Init == InitEC2 \/ InitProbe \/ InitNAT \/ InitLB \/ InitRDS \/ InitEIP \/ InitS3 \/ InitEBS

Next == NextEC2 \/ NextProbe \/ NextNAT \/ NextLB \/ NextRDS \/ NextEIP \/ NextS3 \/ NextEBS

Spec == Init /\ [][Next]_vars

----------------------------------------------------------------------------
(* Properties *)

Called(c, calls) == \E k \in 1..Len(calls) : calls[k] = c

Newest(items) == items[Len(items)]

(* Index of the most recent ACTIVE record, 0 if there is none *)
LastActiveIdx(h) ==
    LET A == { j \in 1..Len(h) : h[j].Status = "ACTIVE" }
    IN  IF A = {} THEN 0 ELSE CHOOSE j \in A : \A k \in A : k <= j

(* Index of the quarantine marker: the most recent QUARANTINE record,      *)
(* provided no ACTIVE record is newer; 0 if there is none.                 *)
MarkerIdx(h) ==
    LET Q == { j \in 1..Len(h) : h[j].Status = "QUARANTINE" /\ j > LastActiveIdx(h) }
    IN  IF Q = {} THEN 0 ELSE CHOOSE j \in Q : \A k \in Q : k <= j

(* Number of idle records newer than the most recent ACTIVE record *)
IdleSinceActive(h) ==
    Cardinality({ j \in 1..Len(h) :
                    j > LastActiveIdx(h) /\ h[j].Status \in { "IDLE", "IDLE_WARNING" } })

ProbeDone == probe.result.action # "NONE"

Visited(i) == last.rid = i /\ last.action \notin { "NONE", "SKIP" }

(* C1: active always wins.  Whatever the history, a CPU reading at or      *)
(* above the idle threshold makes determine_action return ACTIVE with idle *)
(* count 0 and no quarantine date; the iteration then only writes an       *)
(* ACTIVE record: no backup, stop, verification or terminate call.         *)
C1_ActiveAlwaysWins ==
    /\ (ProbeDone /\ probe.cpu >= CPU_IDLE_THRESHOLD)
          => probe.result = Decision("ACTIVE", 0, None)
    /\ \A i \in Instances :
          (Visited(i) /\ last.cpu >= CPU_IDLE_THRESHOLD)
             => /\ last.action = "ACTIVE"
                /\ last.idle_count = 0
                /\ last.quarantine_date = None
                /\ last.calls = << "put_item:ACTIVE" >>
                /\ errors[i] = 0 =>
                      /\ table[i] # << >>
                      /\ Newest(table[i]) = Item("ACTIVE", None, None)

C1_Witness ==
    /\ Visited("i-001")
    /\ last.action = "ACTIVE"
    /\ last.history # << >>
    /\ Newest(last.history).Status = "QUARANTINE"
    /\ Newest(table["i-001"]).Status = "ACTIVE"

(* C3: in the DELETE branch terminate_instance is called only after        *)
(* list_objects_v2 reported an object under the instance's prefix; when it *)
(* reports none or raises, nothing is terminated, no record is written,    *)
(* the history is unchanged and the error counter goes up by one.          *)
C3_VerifyBeforeTerminate ==
    [][ \A i \in Instances :
          (i \in pending /\ i \notin pending' /\ last'.action = "DELETE")
             => LET c == last'.calls IN
                /\ c[1] \in { "list_objects_v2:found", "list_objects_v2:none",
                              "list_objects_v2:error" }
                /\ c[1] = "list_objects_v2:found" => "s3" \in backups[i]
                /\ Called("terminate_instance", c) => c[1] = "list_objects_v2:found"
                /\ c[1] # "list_objects_v2:found"
                      => /\ ~Called("terminate_instance", c)
                         /\ ~Called("put_item:DELETED", c)
                         /\ table'[i] = table[i]
                         /\ state'[i] = state[i]
                         /\ errors'[i] = errors[i] + 1 ]_vars

C3_Witness ==
    /\ Visited("i-001")
    /\ last.action = "DELETE"
    /\ last.calls = << "list_objects_v2:none" >>
    /\ errors["i-001"] = 1
    /\ state["i-001"] = "running"

(* C5: with an idle signal and a quarantine marker, determine_action       *)
(* returns QUARANTINE while the time since the marker is below the grace   *)
(* period and DELETE once it equals or exceeds it.                         *)
C5_GraceBoundaryInclusive ==
    LET h == probe.history
        m == MarkerIdx(h)
        elapsed == probe.at - h[m].Timestamp
        grace == config.GRACE_PERIOD_DAYS * SecondsPerDay
    IN  (ProbeDone /\ probe.cpu < CPU_IDLE_THRESHOLD /\ m # 0)
           => /\ elapsed < grace => probe.result.action = "QUARANTINE"
              /\ elapsed >= grace => probe.result.action = "DELETE"

C5_Witness ==
    LET h == probe.history
        m == MarkerIdx(h)
    IN  /\ ProbeDone /\ probe.cpu < CPU_IDLE_THRESHOLD /\ m # 0
        /\ config.GRACE_PERIOD_DAYS = 1
        /\ probe.at - h[m].Timestamp = SecondsPerDay
        /\ probe.result.action = "DELETE"

(* C9: with an idle signal and no quarantine marker, n idle records since  *)
(* the last ACTIVE one: DELETE when n >= checks and SKIP_QUARANTINE,       *)
(* QUARANTINE when n >= checks otherwise, WARN with count n below that     *)
(* (count 0 without idle history).                                         *)
C9_DecisionTable ==
    LET h == probe.history
        n == IdleSinceActive(h)
    IN  (ProbeDone /\ probe.cpu < CPU_IDLE_THRESHOLD /\ MarkerIdx(h) = 0)
           => probe.result =
                 IF n >= config.IDLE_CHECKS_BEFORE_ACTION
                 THEN Decision(IF config.SKIP_QUARANTINE THEN "DELETE" ELSE "QUARANTINE", n, None)
                 ELSE Decision("WARN", n, None)

C9_Witness ==
    /\ ProbeDone /\ probe.cpu < CPU_IDLE_THRESHOLD
    /\ MarkerIdx(probe.history) = 0
    /\ config.IDLE_CHECKS_BEFORE_ACTION = 3
    /\ IdleSinceActive(probe.history) = 2
    /\ LastActiveIdx(probe.history) = 1
    /\ probe.result = Decision("WARN", 2, None)

(* Index of the record that started the running quarantine: the oldest     *)
(* QUARANTINE record newer than the most recent ACTIVE one; 0 if none.     *)
QuarantineStartIdx(h) ==
    LET Q == { j \in 1..Len(h) : h[j].Status = "QUARANTINE" /\ j > LastActiveIdx(h) }
    IN  IF Q = {} THEN 0 ELSE CHOOSE j \in Q : \A k \in Q : j <= k

(* C4: the grace period runs from the start of the quarantine.  An idle    *)
(* instance first quarantined at T gets QUARANTINE at every cycle with     *)
(* now - T below the grace period and DELETE at the first cycle with       *)
(* now - T at or above it, however many cycles ran in between.             *)
C4_GraceFromQuarantineStart ==
    \A i \in Instances :
        LET h == last.history
            q == QuarantineStartIdx(h)
            T == h[q].Timestamp
            grace == config.GRACE_PERIOD_DAYS * SecondsPerDay
            first == \A j \in q..Len(h) : h[j].Timestamp - T < grace
        IN  (Visited(i) /\ last.idle /\ q # 0)
               => /\ now - T < grace => last.action = "QUARANTINE"
                  /\ (now - T >= grace /\ first) => last.action = "DELETE"

(* C7: with IDLE_CHECKS_BEFORE_ACTION = 3 and history [ACTIVE], the first  *)
(* idle cycle warns and records idle count 1, the second warns and records *)
(* 2, the third deletes (SKIP_QUARANTINE) or quarantines.                  *)
C7_ThreeCycleEscalation ==
    \A i \in Instances :
        LET seen == [ j \in 1..Len(last.history) |->
                        << last.history[j].Status, last.history[j].IdleCount >> ]
            recorded == Newest(table[i]).IdleCount
        IN  (Visited(i) /\ last.idle /\ config.IDLE_CHECKS_BEFORE_ACTION = 3)
               => /\ seen = << << "ACTIVE", None >> >>
                     => last.action = "WARN" /\ (errors[i] = 0 => recorded = 1)
                  /\ seen = << << "ACTIVE", None >>, << "IDLE_WARNING", 1 >> >>
                     => last.action = "WARN" /\ (errors[i] = 0 => recorded = 2)
                  /\ seen = << << "ACTIVE", None >>, << "IDLE_WARNING", 1 >>,
                               << "IDLE_WARNING", 2 >> >>
                     => last.action = IF config.SKIP_QUARANTINE THEN "DELETE"
                                      ELSE "QUARANTINE"

(* C8: the idle counter is monotonic.  When the newest record is           *)
(* IDLE_WARNING or QUARANTINE with idle count k and the resource is idle   *)
(* again, the record written next carries idle count k + 1.                *)
C8_MonotonicIdleCounter ==
    \A i \in Instances :
        LET h == last.history
            k == Newest(h).IdleCount
            wrote == /\ errors[i] = 0
                     /\ \/ Called("put_item:IDLE_WARNING", last.calls)
                        \/ Called("put_item:QUARANTINE", last.calls)
        IN  (/\ Visited(i) /\ last.idle /\ h # << >>
             /\ Newest(h).Status \in { "IDLE_WARNING", "QUARANTINE" }
             /\ wrote)
               => Newest(table[i]).IdleCount = k + 1

Destroyed(r) ==
    \/ Called("terminate_instance", last.calls)
    \/ Called("delete_nat_gateway", last.calls)
    \/ Called("delete_load_balancer", last.calls)
    \/ Called("delete_rds_instance", last.calls)
    \/ Called("put_item:DELETED", last.calls)

(* C2: no unbacked-up destroy.  Whenever an iteration invokes the          *)
(* destructive operation of an instance, NAT gateway, load balancer or     *)
(* database, or writes its DELETED record, a backup capture of that        *)
(* resource has succeeded by then.                                         *)
C2_NoUnbackedUpDestroy ==
    \A r \in Resources :
        (Visited(r) /\ Destroyed(r)) => backups[r] # {}

(* Index of the record of the stop that began the running grace period:    *)
(* the oldest STOPPED record newer than the most recent ACTIVE one.        *)
StopIdx(h) ==
    LET S == { j \in 1..Len(h) : h[j].Status = "STOPPED" /\ j > LastActiveIdx(h) }
    IN  IF S = {} THEN 0 ELSE CHOOSE j \in S : \A k \in S : j <= k

(* C6: a database stopped by the system at T that stays stopped and idle   *)
(* is deleted at the first cycle with now - T >= 7 days, its snapshot      *)
(* succeeding, however many cycles ran during the grace period, and not    *)
(* before.                                                                 *)
C6_StoppedGracePeriod ==
    \A db \in DbInstances :
        LET h == last.history
            q == StopIdx(h)
            T == h[q].Timestamp
            grace == 7 * SecondsPerDay
            first == \A j \in q..Len(h) : h[j].Timestamp - T < grace
            remained == \A j \in (q + 1)..Len(h) :
                           /\ h[j].Status = "STOPPED"
                           /\ h[j].QuarantineDate # h[j].Timestamp
        IN  (/\ Visited(db) /\ last.status = "stopped" /\ last.idle
             /\ q # 0 /\ h[q].QuarantineDate = T /\ remained
             /\ Called("create_rds_snapshot:ok", last.calls))
               => /\ now - T < grace => ~Called("delete_rds_instance", last.calls)
                  /\ (now - T >= grace /\ first)
                        => Called("delete_rds_instance", last.calls)

(* Index of the most recent record of an in-use observation: ACTIVE,       *)
(* ATTACHED, IN_USE or HAS_DATA; 0 if there is none.                        *)
LastResetIdx(h) ==
    LET A == { j \in 1..Len(h) : h[j].Status \in { "ACTIVE", "ATTACHED", "IN_USE", "HAS_DATA" } }
    IN  IF A = {} THEN 0 ELSE CHOOSE j \in A : \A k \in A : k <= j

(* Number of idle records newer than that record *)
IdleSinceReset(h) ==
    Cardinality({ j \in 1..Len(h) :
                    /\ j > LastResetIdx(h)
                    /\ h[j].Status \in { "IDLE", "IDLE_WARNING", "UNATTACHED", "EMPTY",
                                         "AVAILABLE" } })

(* The status recorded for an idle observation below the threshold *)
IdleStatus(r) ==
    IF r \in ElasticIps THEN "UNATTACHED"
    ELSE IF r \in Buckets THEN "EMPTY"
    ELSE IF r \in Volumes THEN "AVAILABLE"
    ELSE "IDLE_WARNING"

(* C10: the idle streak restarts at an ACTIVE (ATTACHED, IN_USE, HAS_DATA) *)
(* record.  The count used for a decision never exceeds the number of      *)
(* records newer than the most recent such record; with such a record      *)
(* newest, an idle observation is a first detection: WARN with count 0,    *)
(* recorded as idle count 1.                                               *)
C10_IdleStreakResets ==
    /\ (ProbeDone /\ probe.cpu < CPU_IDLE_THRESHOLD)
          => LET h == probe.history IN
             /\ probe.result.idle_count <= Len(h) - LastActiveIdx(h)
             /\ LastActiveIdx(h) = Len(h) => probe.result = Decision("WARN", 0, None)
    /\ \A r \in Resources :
          (Visited(r) /\ last.idle)
             => LET h == last.history IN
                /\ last.idle_count <= Len(h) - LastResetIdx(h)
                /\ r \notin Instances => last.idle_count = IdleSinceReset(h)
                /\ LastResetIdx(h) = Len(h)
                      => /\ last.action = "WARN"
                         /\ last.idle_count = 0
                         /\ errors[r] = 0 =>
                               /\ Newest(table[r]).Status = IdleStatus(r)
                               /\ Newest(table[r]).IdleCount = 1

C10_Witness ==
    LET h == probe.history IN
    /\ ProbeDone /\ probe.cpu < CPU_IDLE_THRESHOLD
    /\ Len(h) = 3
    /\ h[1].Status = "IDLE_WARNING" /\ h[2].Status = "ACTIVE" /\ h[3].Status = "IDLE_WARNING"
    /\ probe.result = Decision("WARN", 1, None)

(* Number of EMPTY records newer than the most recent HAS_DATA or ACTIVE   *)
(* record.                                                                 *)
EmptySinceData(h) ==
    LET D == { j \in 1..Len(h) : h[j].Status \in { "HAS_DATA", "ACTIVE" } }
        d == IF D = {} THEN 0 ELSE CHOOSE j \in D : \A k \in D : k <= j
    IN  Cardinality({ j \in 1..Len(h) : j > d /\ h[j].Status = "EMPTY" })

Terminal == { "DELETED", "RELEASED" }

(* C12: at most one terminal transition per resource: the table never      *)
(* holds two DELETED/RELEASED records of one resource.                     *)
C12_OneTerminalTransition ==
    \A r \in Resources :
        Cardinality({ j \in 1..Len(table[r]) : table[r][j].Status \in Terminal }) <= 1

DestroyCalls ==
    { "stop_instance", "terminate_instance", "delete_nat_gateway", "delete_load_balancer",
      "stop_rds_instance", "delete_rds_instance", "release_elastic_ip",
      "delete_empty_bucket", "delete_ebs_volume", "delete_vpc" }

(* The iteration called a stop/terminate/delete/release helper and the     *)
(* helper reported failure: the branch ended at that call.                 *)
DestroyFailed(calls) ==
    /\ calls # << >>
    /\ calls[Len(calls)] \in DestroyCalls

Gone == { "shutting-down", "terminated", "deleting", "deleted", "released" }

HasTerminalRecord(r) == \E j \in 1..Len(table[r]) : table[r][j].Status \in Terminal

(* C14: no half-applied action under abort.  When a run is cut off, every  *)
(* resource whose destructive operation has succeeded has a DELETED or     *)
(* RELEASED record in the table.                                           *)
C14_NoHalfAppliedUnderAbort ==
    response.statusCode = "aborted"
       => \A r \in Resources : state[r] \in Gone => HasTerminalRecord(r)

(* C15: isolate and continue.  An error raised while an instance is        *)
(* processed (here: the history read, seen as an empty history although    *)
(* the table holds records of it) is counted for it, and a run that        *)
(* returns has processed every resource it enumerated.                     *)
C15_IsolateAndContinue ==
    [][ /\ \A i \in Instances :
              (/\ i \in pending /\ i \notin pending'
               /\ last'.rid = i /\ last'.action # "SKIP"
               /\ table[i] # << >> /\ last'.history = << >>)
                 => errors'[i] = errors[i] + 1
        /\ (response.statusCode = "none" /\ response'.statusCode = "200")
              => \A r \in scope : r \in processed' \/ state'[r] = "deleting" ]_vars

(* C16: a failed validation stops the run before any work: the invocation  *)
(* raises, no resource is evaluated, nothing is called and the table is    *)
(* left as it was.                                                         *)
C16_FatalConfigurationStops ==
    [][ ~response'.validated
           => /\ response'.statusCode = "raised"
              /\ pending' = {}
              /\ processed' = {}
              /\ last' = NoLast
              /\ table' = table
              /\ state' = state
              /\ backups' = backups ]_vars

C16_Witness ==
    /\ response.statusCode = "raised"
    /\ ~response.validated
    /\ cycles = 2
    /\ table["i-001"] # << >>
    /\ state["i-001"] = "running"
    /\ processed = {}

ResourceTypes == { "EC2", "NAT", "EIP", "RDS", "S3", "EBS", "LB", "VPC" }

(* C17: a run that passed validation and ended returns a summary with the  *)
(* counts of every resource type.                                          *)
C17_SummaryPerType ==
    (response.validated /\ response.statusCode \notin { "none", "aborted" })
       => response.counted = ResourceTypes

Records(items) == { items[j] : j \in 1..Len(items) }

(* C18: the history is append-only.  No record is ever removed or          *)
(* replaced, every record written is newer than all earlier ones, and a    *)
(* record whose put_item went through is in the table afterwards, also     *)
(* when the iteration writes a second record (LIFECYCLE_APPLIED, then      *)
(* HAS_DATA).                                                              *)
C18_AppendOnly ==
    [][ \A r \in Resources :
          /\ Records(table[r]) \subseteq Records(table'[r])
          /\ \A new \in Records(table'[r]) \ Records(table[r]) :
                \A old \in Records(table[r]) : old.Timestamp < new.Timestamp
          /\ (/\ r \in pending /\ r \notin pending' /\ last'.rid = r
              /\ state[r] = "has_data"
              /\ Called("send_s3_bucket_alert:LIFECYCLE_APPLIED", last'.calls))
                => \E new \in Records(table'[r]) \ Records(table[r]) :
                      new.Status = "LIFECYCLE_APPLIED" ]_vars

Without(h, j) == SubSeq(h, 1, j - 1) \o SubSeq(h, j + 1, Len(h))

(* C19: malformed records are ignored.  With an idle signal, the decision  *)
(* from a history containing a record without Timestamp is the decision    *)
(* from the history without that record.                                   *)
C19_MalformedIgnored ==
    (ProbeDone /\ probe.cpu < CPU_IDLE_THRESHOLD)
       => \A j \in 1..Len(probe.history) :
             probe.history[j].Timestamp = None
                => probe.result = determine_action(Without(probe.history, j), probe.cpu,
                                                   probe.at, config)

Rank(action) ==
    IF action = "WARN" THEN 1
    ELSE IF action = "QUARANTINE" THEN 2
    ELSE IF action = "DELETE" THEN 3
    ELSE 0

(* The action whose record is the newest one of the history. *)
RecordedAction(h) ==
    IF h = << >> THEN "NONE"
    ELSE IF Newest(h).Status = "IDLE_WARNING" THEN "WARN"
    ELSE IF Newest(h).Status = "QUARANTINE" THEN "QUARANTINE"
    ELSE IF Newest(h).Status = "DELETED" THEN "DELETE"
    ELSE "NONE"

(* C20: re-invocation is safe.  When the newest record of an instance is   *)
(* that of a WARN, QUARANTINE or DELETE (no ACTIVE observation since) and   *)
(* the instance is idle again, the action derived in this cycle is not     *)
(* below the recorded one in the order WARN < QUARANTINE < DELETE.         *)
C20_NoRegression ==
    [][ \A i \in Instances :
          (/\ i \in pending /\ i \notin pending' /\ last'.rid = i
           /\ last'.action # "SKIP" /\ last'.idle)
             => Rank(last'.action) >= Rank(RecordedAction(table[i])) ]_vars

(* The per-service subtotals of a result, whatever their order *)
Subtotals(savings_data) ==
    { savings_data.savings_by_service[j] : j \in 1..Len(savings_data.savings_by_service) }

Calculated == DOMAIN calc.savings_data # {}

(* The rows of a result that belong to resource r *)
RowsOf(savings_data, r) ==
    { j \in 1..Len(savings_data.detailed_resources) :
        savings_data.detailed_resources[j].resource_id = r }

(* C22: each resource contributes at most once to a month's savings.  The  *)
(* result has at most one row per resource, and the count of a resource    *)
(* type does not exceed the number of resources of that type.              *)
C22_OncePerResource ==
    Calculated
       => /\ \A r \in Resources : Cardinality(RowsOf(calc.savings_data, r)) <= 1
          /\ \A s \in Subtotals(calc.savings_data) :
                s.count <= Cardinality({ r \in Resources : ResourceType(r) = s.service_code })

(* C23: released resources count as savings.  When the scanned history     *)
(* holds a RELEASED record of an Elastic IP dated in the month, the result *)
(* has a row for that address, with a positive amount.                     *)
C23_ReleasedCounts ==
    Calculated
       => \A e \in ElasticIps :
             (\E j \in 1..Len(calc.scanned.items[e]) :
                 /\ calc.scanned.items[e][j].Status = "RELEASED"
                 /\ MonthOf(calc.scanned.items[e][j].Timestamp) = calc.scanned.month)
                => \E j \in RowsOf(calc.savings_data, e) :
                      calc.savings_data.detailed_resources[j].monthly_savings > 0

(* The savings the monthly calculation assigns to the qualifying records   *)
(* of a history, all months together.                                      *)
RECURSIVE PerRecordSavings(_, _, _)
PerRecordSavings(found, k, region) ==
    IF k > Len(found) THEN 0
    ELSE calculate_monthly_savings(found[k].ResourceType, PricedAs(found[k]), region)
           + PerRecordSavings(found, k + 1, region)

(* C24: cumulative savings is the monthly reduction without the time       *)
(* bound.  When its scan succeeds, the cumulative total of the dashboard   *)
(* is the sum of the per-record savings of the monthly calculation over    *)
(* all DELETED and STOPPED records, and is not below the month's total.    *)
C24_CumulativeIsUnboundedMonthly ==
    (Calculated /\ calc.cumulativeOk)
       => LET Qualifies(item) == item.Status \in { "DELETED", "STOPPED" }
              found == SelectSeq(Scan(calc.scanned.items, calc.order, 1), Qualifies)
          IN  /\ calc.dashboard.cumulative_savings
                   = Round2(PerRecordSavings(found, 1, calc.region))
              /\ calc.dashboard.cumulative_savings
                   >= calc.dashboard.current_month.total_savings

(* C25: the per-service breakdown of the dashboard is sorted by savings,   *)
(* highest first, it lists the services of the result, and the pie-chart   *)
(* breakdown has the same services in the same order with the same values. *)
C25_BreakdownSorted ==
    Calculated
       => LET services == calc.dashboard.current_month.savings_by_service
              breakdown == calc.dashboard.breakdown
          IN  /\ \A j, k \in 1..Len(services) :
                    j < k => services[j].savings >= services[k].savings
              /\ { [ service_code |-> services[j].service_code, count |-> services[j].count,
                     savings |-> services[j].savings ] : j \in 1..Len(services) }
                   = { [ s EXCEPT !.savings = Round2(@) ] : s \in Subtotals(calc.savings_data) }
              /\ Len(breakdown) = Len(services)
              /\ \A j \in 1..Len(services) :
                    /\ breakdown[j].name = services[j].service
                    /\ breakdown[j].value = services[j].savings

C25_Witness ==
    /\ Calculated
    /\ Len(calc.savings_data.savings_by_service) = 2
    /\ calc.savings_data.savings_by_service[1].service_code = "EC2"
    /\ calc.savings_data.savings_by_service[1].savings
         < calc.savings_data.savings_by_service[2].savings
    /\ calc.dashboard.breakdown[1].name = "RDS Databases"
    /\ calc.dashboard.breakdown[2].name = "EC2 Instances"

RECURSIVE SumRows(_, _)
SumRows(detailed, k) ==
    IF k > Len(detailed) THEN 0 ELSE detailed[k].monthly_savings + SumRows(detailed, k + 1)

(* C26: CSV summary rows.  The report archived by a run starts with the    *)
(* header, has one row per qualifying resource of the run's result (then a *)
(* blank line), and ends with 'Total Savings' carrying the sum of the      *)
(* rows' savings, printed with two decimals, and 'Total Resources'         *)
(* carrying the number of rows.                                            *)
C26_CsvSummaryRows ==
    calc.csvWritten
       => LET lines == calc.csv[calc.savings_data.month]
              detailed == calc.savings_data.detailed_resources
              n == Len(detailed)
          IN  /\ Len(lines) = n + 4
              /\ lines[1] = << "Date", "Resource ID", "Resource Type", "Instance Type",
                               "Monthly Savings" >>
              /\ \A j \in 1..n :
                    lines[j + 1] = << detailed[j].date, detailed[j].resource_id,
                                      detailed[j].resource_type, detailed[j].instance_type,
                                      Round2(detailed[j].monthly_savings) >>
              /\ lines[n + 3] = << "Total Savings", "", "", Round2(SumRows(detailed, 1)) >>
              /\ lines[n + 4] = << "Total Resources", "", "", n >>

C26_Witness ==
    /\ calc.csvWritten
    /\ Len(calc.savings_data.detailed_resources) = 3
    /\ Len(calc.savings_data.savings_by_service) = 2
    /\ Len(calc.csv[calc.savings_data.month]) = 7

(* C27: closed periods are never recomputed.  Every entry of the           *)
(* dashboard's historical series is for a month before the current one and *)
(* shows the total of that month's archived report (to the cent) when the  *)
(* archive exists, 0 otherwise, whatever the history holds.                *)
C27_ClosedPeriodsFromArchive ==
    Calculated
       => \A j \in 1..Len(calc.dashboard.historical) :
             LET entry == calc.dashboard.historical[j]
             IN  /\ entry.month # calc.savings_data.month
                 /\ entry.savings = IF entry.month \in DOMAIN calc.reports
                                    THEN Round2(calc.reports[entry.month].total_savings)
                                    ELSE 0

(* C28: monthly archives are immutable.  Once the JSON or the CSV report   *)
(* of a month exists, no step changes its figures (the generation time of  *)
(* the JSON report set aside).                                             *)
C28_ArchivesImmutable ==
    [][ /\ \A month \in DOMAIN calc.reports :
              /\ month \in DOMAIN calc'.reports
              /\ [ calc'.reports[month] EXCEPT !.generated_at = 0 ]
                   = [ calc.reports[month] EXCEPT !.generated_at = 0 ]
        /\ \A month \in DOMAIN calc.csv :
              month \in DOMAIN calc'.csv /\ calc'.csv[month] = calc.csv[month] ]_vars

(* The estimate of the largest size a class name matches: `buckets` lists  *)
(* the estimates for nano, micro, small, medium, large, xlarge and         *)
(* anything larger.                                                        *)
LargestBucket(name, buckets) ==
    IF Contains(name, Size_xlarge)
    THEN (IF Contains(name, TwoX) THEN buckets[7] ELSE buckets[6])
    ELSE IF Contains(name, Size_large) THEN buckets[5]
    ELSE IF Contains(name, Size_medium) THEN buckets[4]
    ELSE IF Contains(name, Size_small) THEN buckets[3]
    ELSE IF Contains(name, Size_micro) THEN buckets[2]
    ELSE IF Contains(name, Size_nano) THEN buckets[1]
    ELSE buckets[7]

(* C29: conservative price fallback.  For a class that is not in the       *)
(* pricing table, the estimate is that of the largest size its name        *)
(* matches (a name containing 'xlarge' is not priced as 'large' or below)  *)
(* and is never 0.                                                         *)
C29_ConservativeFallback ==
    /\ (probe.fn = "get_instance_cost" /\ probe.arg \notin DOMAIN InstancePricing)
          => /\ probe.result
                  = LargestBucket(probe.arg, << 500, 1000, 2000, 3500, 7000, 14000, 20000 >>)
             /\ probe.result > 0
    /\ (probe.fn = "get_rds_cost" /\ probe.arg \notin DOMAIN RdsPricing)
          => /\ probe.result
                  = LargestBucket(probe.arg, << 50000, 1500, 3000, 6000, 15000, 30000, 50000 >>)
             /\ probe.result > 0
    /\ (/\ probe.fn = "get_hourly_rate"
        /\ probe.arg[2] \notin DOMAIN Get(Get(AWS_PRICING, probe.arg[3], EmptyDict),
                                          probe.arg[1], EmptyDict))
          => probe.result > 0

(* The configured number of idle checks of a resource's type *)
ConfiguredChecks(r) ==
    IF r \in NatGateways THEN NAT_GATEWAY_IDLE_CHECKS
    ELSE IF r \in DbInstances THEN RDS_IDLE_CHECKS
    ELSE IF r \in Buckets THEN S3_EMPTY_BUCKET_CHECKS
    ELSE IF r \in Volumes THEN EBS_UNATTACHED_CHECKS
    ELSE LB_IDLE_CHECKS

(* C30: configured idle-check thresholds are honoured.  For a NAT gateway, *)
(* a database, a bucket, a volume and a load balancer, an iteration only   *)
(* warns while the count of consecutive idle records is below the          *)
(* configured constant of the type, and takes the destructive branch       *)
(* (delete, or stop-or-delete for a database) exactly from that count on.  *)
C30_ThresholdsHonoured ==
    \A r \in NatGateways \cup DbInstances \cup Buckets \cup Volumes \cup LoadBalancers :
        Visited(r)
           => /\ last.action = "WARN" => last.idle_count < ConfiguredChecks(r)
              /\ last.action \in { "DELETE", "STOP_OR_DELETE" }
                    => last.idle_count >= ConfiguredChecks(r)

(* Position of the first call c in calls, 0 if it was not made *)
PositionOf(c, calls) ==
    LET P == { k \in 1..Len(calls) : calls[k] = c }
    IN  IF P = {} THEN 0 ELSE CHOOSE k \in P : \A j \in P : k <= j

(* The snapshot call of a volume or a database, by its outcome *)
SnapshotCall(r, outcome) ==
    IF r \in Volumes THEN IF outcome THEN "create_ebs_snapshot:ok" ELSE "create_ebs_snapshot:failed"
    ELSE IF outcome THEN "create_rds_snapshot:ok" ELSE "create_rds_snapshot:failed"

(* The destructive calls and terminal records of a volume or a database *)
DataDestroying == { "delete_ebs_volume", "stop_rds_instance", "delete_rds_instance",
                    "put_item:STOPPED", "put_item:DELETED" }

(* C31: snapshot before destroying data.  In an iteration on a volume or   *)
(* a database, every delete or stop call and every STOPPED or DELETED      *)
(* record comes after a snapshot call of that iteration that returned a    *)
(* snapshot id; when the snapshot call fails, no such call is made, the    *)
(* history and the state of the resource stay as they were, and one error  *)
(* is counted.                                                             *)
C31_SnapshotBeforeDestroy ==
    [][\A r \in Volumes \cup DbInstances :
          (r \in pending /\ r \notin pending' /\ last'.rid = r)
             => LET calls == last'.calls
                    ok == PositionOf(SnapshotCall(r, TRUE), calls)
                IN  /\ \A k \in 1..Len(calls) :
                          calls[k] \in DataDestroying => (ok > 0 /\ ok < k)
                    /\ (table'[r] # table[r]
                          /\ table'[r][Len(table'[r])].Status \in { "STOPPED", "DELETED" })
                          => ok > 0
                    /\ state'[r] # state[r] => ok > 0
                    /\ Called(SnapshotCall(r, FALSE), calls)
                          => /\ table'[r] = table[r]
                             /\ state'[r] = state[r]
                             /\ errors'[r] = errors[r] + 1]_vars

(* A volume unattached for the third check whose snapshot failed: it stays, *)
(* with an error counted.                                                  *)
C31_Witness ==
    /\ last.rid \in Volumes
    /\ last.action = "DELETE"
    /\ Called("create_ebs_snapshot:failed", last.calls)
    /\ state[last.rid] = "available"
    /\ errors[last.rid] > 0

(* The notifications of an idle warning, by the name of the call *)
WarningAlerts == { "send_idle_alert", "send_alert", "send_ebs_volume_alert",
                   "send_s3_bucket_alert:EMPTY_WARNING" }

(* C32: one warning per idle streak.  An iteration that warns sends the    *)
(* notification only on the first idle detection after activity: once it   *)
(* has sent it, the record it wrote is the only idle record of the         *)
(* resource newer than its most recent record of an in-use observation.    *)
C32_OneWarningPerStreak ==
    \A r \in Resources :
        (/\ Visited(r)
         /\ last.action = "WARN"
         /\ \E c \in WarningAlerts : Called(c, last.calls))
           => IdleSinceReset(table[r]) = 1

(* C33: the protection tag is absolute.  No step of a cycle changes the    *)
(* cloud-side state of a resource tagged CostGuardian=Ignore (it is not    *)
(* stopped, deleted or released, even while another resource is            *)
(* processed), and no record is appended to its history.                   *)
C33_ProtectionTagAbsolute ==
    [][\A r \in Resources :
          Protected(r)
             => /\ state'[r] # state[r]
                   => state'[r] \notin { "stopped", "shutting-down", "deleting", "deleted",
                                         "released" }
                /\ table'[r] = table[r]]_vars

(* C34: a failed read never makes a cycle more destructive.  When the      *)
(* usage query of an iteration raises, the resource is recorded ACTIVE;    *)
(* when the history query raises (an idle resource with records in the     *)
(* window is seen with an empty history), the iteration only warns, with   *)
(* idle count 0.  In both cases no stop, delete or release helper is       *)
(* called and the state of the resource stays as it was.                   *)
C34_FailedReadNotDestructive ==
    [][\A r \in Resources :
          (r \in pending /\ r \notin pending' /\ last'.rid = r /\ last'.action # "SKIP")
             => LET recorded == get_resource_history(table[r], TRUE, now, HistoryDays)
                    unread == last'.idle /\ last'.history = << >> /\ recorded # << >>
                    harmless == /\ \A c \in DestroyCalls : ~Called(c, last'.calls)
                                /\ state'[r] = state[r]
                IN  /\ last'.error => (last'.action = "ACTIVE" /\ harmless)
                    /\ unread => (/\ last'.action = "WARN"
                                  /\ last'.idle_count = 0
                                  /\ harmless)]_vars

CostBearing == Instances \cup DbInstances \cup NatGateways \cup Volumes \cup LoadBalancers

(* C36: monitor and aggregator agree on records.  After a run of the       *)
(* calculator over the table as it is, in a region that has prices, every  *)
(* DELETED record the monitor wrote for an instance, database, NAT         *)
(* gateway, volume or load balancer in the month of the run has a row of   *)
(* the month's report with a strictly positive amount.                     *)
C36_MonitorAndAggregatorAgree ==
    (/\ calc.statusCode = "200"
     /\ calc.scanned.items = table
     /\ calc.region \in DOMAIN AWS_PRICING)
       => \A r \in scope \cap CostBearing : \A j \in 1..Len(table[r]) :
            (/\ table[r][j].Status = "DELETED"
             /\ MonthOf(table[r][j].Timestamp) = calc.savings_data.month)
               => \E k \in 1..Len(calc.savings_data.detailed_resources) :
                    LET row == calc.savings_data.detailed_resources[k] IN
                    /\ row.resource_id = r
                    /\ row.date = table[r][j].Timestamp \div SecondsPerDay
                    /\ row.monthly_savings > 0

(* The months of the model's calendar *)
Months1970 == { << 1970, m >> : m \in 1..12 }

(* The rows of the report calculate_savings makes for a month, by resource *)
(* and date                                                                *)
CountedIn(month) ==
    LET counted == calculate_savings(month, table, calc.order, calc.region, 0).detailed_resources
    IN  { << counted[k].resource_id, counted[k].date >> : k \in 1..Len(counted) }

(* C37: months partition the records.  For any two different months the    *)
(* sets of records counted by calculate_savings are disjoint, a record     *)
(* written in the first second of a month included.                        *)
C37_MonthsPartitionRecords ==
    \A m1 \in Months1970, m2 \in Months1970 :
       m1 # m2 => CountedIn(m1) \cap CountedIn(m2) = {}

(* The months counted from year 0: consecutive months differ by one. *)
MonthOrdinal(month) == 12 * month[1] + (month[2] - 1)

(* C38: historical series shape.  get_historical_data(N) returns exactly N *)
(* entries; entry j is the calendar month N - j + 1 months before the      *)
(* current month, so the entries are the N months strictly before the      *)
(* current one in ascending order, with the year rolled over, and none is  *)
(* the current month.                                                      *)
C38_HistoricalSeriesShape ==
    probe.fn = "get_historical_data"
       => LET N == probe.arg[1]
              current == MonthOf(probe.arg[2])
              historical == probe.result
          IN  /\ Len(historical) = N
              /\ \A j \in 1..Len(historical) :
                    /\ historical[j].month[2] \in 1..12
                    /\ MonthOrdinal(historical[j].month) = MonthOrdinal(current) - (N - j + 1)
                    /\ historical[j].month # current

(* Thirteen months back from January 1970: the series starts in December   *)
(* 1968 and ends in December 1969.                                         *)
C38_Witness ==
    /\ probe.fn = "get_historical_data"
    /\ probe.arg[1] > 12
    /\ MonthOf(probe.arg[2]) = << 1970, 1 >>
    /\ probe.result[1].month[1] = 1968
    /\ probe.result[Len(probe.result)].month = << 1969, 12 >>
    /\ probe.result[Len(probe.result)].savings = 84700

====
